---------------------------- MODULE Spec2Model ----------------------------
(***************************************************************************)
(* A model of github.com/pvillela/go-rendezvous: the Rdv one-shot          *)
(* rendezvous channel (package rdv), the panic-to-error wrapper (package   *)
(* util), the fan-out combinators (package rdvext), and the waiters and    *)
(* promises of the superseded package obsolete.                            *)
(*                                                                         *)
(* Go's runtime is modelled at the level the code depends on:              *)
(*  - a buffered channel hands a sent value directly to a receiver that is *)
(*    already blocked on it, and buffers it otherwise;                     *)
(*  - close(ch) wakes every blocked receiver with the zero value;          *)
(*  - a select whose cases are both ready picks one of them at random, a   *)
(*    select that blocks is completed by the first event that arrives;     *)
(*  - recover() returns nil both when nothing panicked and, for the Go     *)
(*    1.18 toolchain the library names (src/doc.go), after panic(nil).     *)
(***************************************************************************)
EXTENDS Integers, Sequences, FiniteSets, TLC

VARIABLES
    mode,    \* the entry point exercised: "Go", "GoEg", "RunSlice", "Run2", "RunSliceEg",
             \* "Run2Eg", "GoWatch" for Go(CtxApplyWatch(ctx, f)), or one of package
             \* obsolete: "Async", "RunInBackground", "WgWaiter", "EgWaiter"
    n,       \* the number of task functions passed to the entry point
    tok,     \* the state of the caller's token ctx and of the group's derived token egCtx
    ch,      \* ch[r]: the channel of Rdv r, its buffer and its closed flag
    recvq,   \* recvq[r]: the threads blocked receiving on ch[r], first come first
    inbox,   \* inbox[t]: what completed the blocking receive of thread t
    gor,     \* gor[r]: the goroutine started by Go / GoEg for Rdv r
    fret,    \* fret[i]: how task function i ended (returned or panicked)
    eg,      \* the errgroup.Group of GoEg / RunSliceEg / Run2Eg
    run,     \* the thread executing RunSlice / Run2 / RunSliceEg / Run2Eg
    cl,      \* cl[c]: a client thread calling Receive / ReceiveWatch on the handle
    hist,    \* history: per Rdv, how many sends, closes, deliveries and calls happened,
             \* the caller's token state at the send, the task that failed first, and
             \* whether the caller's token fired before any task function ended
    obs      \* the waiter, promise, goroutines and callers of package obsolete

vars == <<mode, n, tok, ch, recvq, inbox, gor, fret, eg, run, cl, hist, obs>>

---------------------------------------------------------------------------
(* Bounds of the model. *)

\* The largest number of task functions passed to a slice combinator.
MaxN == 2

\* The number of Receive / ReceiveWatch calls made on one handle at most.
MaxCalls == 2

---------------------------------------------------------------------------
(* Values, errors, panic payloads. *)

\* The zero value of the result type T (int in the examples).
ZeroValue == 0

\* The nil interface value: a nil error, and what recover() returns when there
\* is nothing to recover.
Nil == [kind |-> "nil", tag |-> 0]

\* errors.New(...) returned by task function i.
TaskErr(i) == [kind |-> "task", tag |-> i]

\* context.Canceled and context.DeadlineExceeded.
Canceled == [kind |-> "Canceled", tag |-> 0]
DeadlineExceeded == [kind |-> "DeadlineExceeded", tag |-> 0]

\* A panic payload that is not an error (a string, as in panic("f2 panicked")).
StrPayload(i) == [kind |-> "string", tag |-> i]

\* A panic payload that is an error value.
ErrPayload(i) == [kind |-> "perr", tag |-> i]

\* The payload of the panic raised by Receive / ReceiveWatch on a closed channel.
ClosedRdvPayload == [kind |-> "string", tag |-> -1]

\* x.(type) is error
IsError(x) == x.kind \in {"task", "perr", "ErrorOf", "Canceled", "DeadlineExceeded"}

\* ErrorOf{x}: wraps an arbitrary value into an error.
ErrorOf(x) == [kind |-> "ErrorOf", tag |-> x.tag]

ToErrorAlwaysWrap(x) == ErrorOf(x)

\* util.ToError
ToError(x) == IF IsError(x) THEN x ELSE ErrorOf(x)

\* How a call of a function ends: it returns (value, err) or panics with payload.
Ret(v, e) == [panics |-> FALSE, value |-> v, err |-> e, payload |-> Nil]
Panic(p) == [panics |-> TRUE, value |-> ZeroValue, err |-> Nil, payload |-> p]
NoOutcome == [panics |-> FALSE, value |-> -1, err |-> Nil, payload |-> Nil]

\* The ways task function i may end.  A function may return a non-zero value
\* together with an error (f4, f5 of the examples), panic with a string (f2),
\* with an error value, or with nil.
Outcomes(i) ==
    { Ret(i, Nil), Ret(10 + i, TaskErr(i)),
      Panic(StrPayload(i)), Panic(ErrPayload(i)), Panic(Nil) }

SafeFunc0EDropErr(o) ==
    IF o.panics /\ o.payload # Nil THEN Ret(ZeroValue, ToError(o.payload))
    ELSE IF o.panics THEN Ret(ZeroValue, Nil) ELSE Ret(o.value, Nil)

\* util.SafeFunc0E(f)(): the named results (res, err) start as (zero, nil);
\* "return f()" sets them when f returns; the deferred function overwrites err
\* when recover() is not nil.
SafeFunc0E(o) ==
    LET err0 == IF o.panics THEN o.payload ELSE Nil
        res  == IF o.panics THEN ZeroValue ELSE o.value
        err  == IF o.panics THEN Nil ELSE o.err
    IN  Ret(res, IF err0 # Nil THEN ToError(err0) ELSE err)

---------------------------------------------------------------------------
(* Identifiers. *)

Tasks == 1..MaxN

\* Rdv i is the handle of task i; Rdv InnerOf(i) is the handle created inside
\* the function returned by CtxApplyWatch for task i.
InnerOf(r) == r + MaxN

\* The handle returned by GoSlice, Go2, GoSliceEg or Go2Eg.
WrapRdv == 2 * MaxN + 1

RdvIds == 1..(2 * MaxN + 1)

\* Threads: the goroutine of Rdv r is thread r; then the caller's threads.
RunThread == 0
Clients == {2 * MaxN + 2, 2 * MaxN + 3}
Threads == {RunThread} \cup RdvIds \cup Clients

\* The handle the clients of the primitive share.
TheRdv == 1

EgModes == {"GoEg", "RunSliceEg", "Run2Eg"}
PrimModes == {"Go", "GoEg"}
RunModes == {"RunSlice", "Run2", "RunSliceEg", "Run2Eg"}

---------------------------------------------------------------------------
(* Channels. *)

ChanCapUnbuffered == 1 - 1

\* make(chan rdvData[T], 1)
ChanCap == 1

\* rdvData[T]{}: what a receive on a closed, drained channel yields.
ZeroData == [value |-> ZeroValue, err |-> Nil, chanOpen |-> FALSE]

OpenDataNoValue(v, e) == [value |-> ZeroValue, err |-> e, chanOpen |-> TRUE]

\* rdvData[T]{res, err, true}
OpenData(v, e) == [value |-> v, err |-> e, chanOpen |-> TRUE]

NoMsg == [kind |-> "none", data |-> ZeroData]
DataMsg(d) == [kind |-> "data", data |-> d]

EmptyChan == [buf |-> <<>>, closed |-> FALSE]

RECURSIVE SeqFilterOut(_, _)
\* q without the entries that watch token t
SeqFilterOut(q, t) ==
    IF q = <<>> THEN <<>>
    ELSE IF Head(q).tok = t THEN SeqFilterOut(Tail(q), t)
    ELSE <<Head(q)>> \o SeqFilterOut(Tail(q), t)

Waiters(q) == { q[k].th : k \in DOMAIN q }
WaitersOn(q, t) == { q[k].th : k \in { j \in DOMAIN q : q[j].tok = t } }


\* The token states.  "absent": the entry point creates no derived token.
Fired == {"Canceled", "DeadlineExceeded"}

\* The token watched by the function CtxApplyWatch returns: the group's derived
\* token under RunSliceEg / Run2Eg / GoEg, else the caller's token.
WatchTok == IF mode \in EgModes THEN "egCtx" ELSE "ctx"

ErrOfState(s) == IF s = "Canceled" THEN Canceled ELSE DeadlineExceeded

CtxMsgNoErr(s) ==
    [kind |-> "ctx", data |-> [value |-> ZeroValue, err |-> Nil, chanOpen |-> FALSE]]

CtxMsgOf(s) ==
    [kind |-> "ctx", data |-> [value |-> ZeroValue, err |-> ErrOfState(s), chanOpen |-> FALSE]]

Bump(f, r) == [f EXCEPT ![r] = @ + 1]

\* History is kept where a claim reads it: the caller's token state at the
\* moment of a send and the task that failed first are noted for the handles
\* the caller itself receives from with that token (not inside a group).
NotesOrder == mode \notin {"RunSliceEg", "Run2Eg"}
SentTokNote(r) == IF NotesOrder THEN tok.ctx ELSE hist.sentTok[r]

\* Thread th starts "<-ch[r]" (tk = "none": Receive) or
\* "select { case data = <-ch[r]: ...; case <-ctx.Done(): ... }" (ReceiveWatch).
\* A ready case completes the receive at once, a random one if both are ready;
\* otherwise the thread blocks until a send, a close or the token wakes it.
RecvEnter(th, r, tk) ==
    LET chanReady == ch[r].buf # <<>> \/ ch[r].closed
        ctxReady  == tk # "none" /\ tok[tk] \in Fired
    IN  /\ UNCHANGED tok
        /\ \/ /\ chanReady /\ ch[r].buf # <<>>
              /\ inbox' = [inbox EXCEPT ![th] = DataMsg(Head(ch[r].buf))]
              /\ ch' = [ch EXCEPT ![r].buf = Tail(@)]
              /\ hist' = [hist EXCEPT !.calls = Bump(@, r), !.got = Bump(@, r)]
              /\ UNCHANGED recvq
           \/ /\ chanReady /\ ch[r].buf = <<>>
              /\ inbox' = [inbox EXCEPT ![th] = DataMsg(ZeroData)]
              /\ hist' = [hist EXCEPT !.calls = Bump(@, r)]
              /\ UNCHANGED <<ch, recvq>>
           \/ /\ ctxReady
              /\ inbox' = [inbox EXCEPT ![th] = CtxMsgOf(tok[tk])]
              /\ hist' = [hist EXCEPT !.calls = Bump(@, r)]
              /\ UNCHANGED <<ch, recvq>>
           \/ /\ ~chanReady /\ ~ctxReady
              /\ recvq' = [recvq EXCEPT ![r] = Append(@, [th |-> th, tok |-> tk])]
              /\ hist' = [hist EXCEPT !.calls = Bump(@, r)]
              /\ UNCHANGED <<ch, inbox>>

SendOpUnbuffered(r, d) ==
    /\ ~ch[r].closed
    /\ recvq[r] # <<>>
    /\ inbox' = [inbox EXCEPT ![Head(recvq[r]).th] = DataMsg(d)]
    /\ recvq' = [recvq EXCEPT ![r] = Tail(@)]
    /\ hist' = [hist EXCEPT !.sent = Bump(@, r), !.got = Bump(@, r),
                            !.sentTok[r] = SentTokNote(r)]
    /\ UNCHANGED <<ch, tok>>

\* "rv.ch <- d": handed to the first blocked receiver if there is one, buffered
\* if the buffer has room, and blocking (not enabled) otherwise.
SendOp(r, d) ==
    /\ ~ch[r].closed
    /\ \/ /\ recvq[r] # <<>>
          /\ inbox' = [inbox EXCEPT ![Head(recvq[r]).th] = DataMsg(d)]
          /\ recvq' = [recvq EXCEPT ![r] = Tail(@)]
          /\ hist' = [hist EXCEPT !.sent = Bump(@, r), !.got = Bump(@, r),
                                  !.sentTok[r] = SentTokNote(r)]
          /\ UNCHANGED <<ch, tok>>
       \/ /\ recvq[r] = <<>>
          /\ Len(ch[r].buf) < ChanCap
          /\ ch' = [ch EXCEPT ![r].buf = Append(@, d)]
          /\ hist' = [hist EXCEPT !.sent = Bump(@, r), !.sentTok[r] = SentTokNote(r)]
          /\ UNCHANGED <<recvq, inbox, tok>>

\* "close(rv.ch)": every blocked receiver is woken with the zero rdvData.
CloseOp(r) ==
    /\ ch' = [ch EXCEPT ![r].closed = TRUE]
    /\ inbox' = [t \in Threads |->
                    IF t \in Waiters(recvq[r]) THEN DataMsg(ZeroData) ELSE inbox[t]]
    /\ recvq' = [recvq EXCEPT ![r] = <<>>]
    /\ hist' = [hist EXCEPT !.closed = Bump(@, r)]
    /\ UNCHANGED tok

\* Token t becomes done with state s: its Done channel is closed, which wakes
\* every select blocked on it.
FireTok(t, s) ==
    /\ tok' = [tok EXCEPT ![t] = s]
    /\ recvq' = [r \in RdvIds |-> SeqFilterOut(recvq[r], t)]
    /\ inbox' = [th \in Threads |->
                    IF \E r \in RdvIds : th \in WaitersOn(recvq[r], t)
                    THEN CtxMsgOf(s) ELSE inbox[th]]

ReceiveReturnNoCheck(msg) == Ret(msg.data.value, msg.data.err)

\* What Receive / ReceiveWatch does with what completed its receive: it panics
\* when the data came from the closed channel, else returns (value, err).
ReceiveReturn(msg) ==
    IF msg.kind = "data" /\ ~msg.data.chanOpen
    THEN Panic(ClosedRdvPayload)
    ELSE Ret(msg.data.value, msg.data.err)

---------------------------------------------------------------------------
(* The goroutine started by Go / GoEg for Rdv r. *)

NoGor == [pc |-> "none", body |-> "plain", task |-> 0, member |-> FALSE,
          res |-> ZeroValue, err |-> Nil]

\* The goroutine as Go (member = FALSE) or eg.Go in GoEg (member = TRUE) starts it.
\* body is the function it runs: "plain" is CtxApply(ctx, f), which runs task
\* function f; "watch" is CtxApplyWatch(ctx, f); "run" is the function of
\* GoSlice / Go2 / GoSliceEg / Go2Eg, which calls the combinator.
NewGor(b, i, m) == [pc |-> "start", body |-> b, task |-> i, member |-> m,
                    res |-> ZeroValue, err |-> Nil]

AfterFs(g, s) ==
    IF s.panics THEN [g EXCEPT !.pc = "crashed"]
    ELSE [g EXCEPT !.pc = "send", !.res = s.value, !.err = s.err]

\* res, err := fs() with fs = SafeFunc0E(CtxApply(ctx, f)): task function f runs
\* to its end, returning or panicking in one of the ways open to it.
G_Call(r) ==
    /\ gor[r].pc = "start" /\ gor[r].body = "plain"
    /\ \E o \in Outcomes(gor[r].task) :
          /\ fret' = [fret EXCEPT ![gor[r].task] = o]
          /\ gor' = [gor EXCEPT ![r] = AfterFs(@, SafeFunc0E(o))]
          /\ hist' = [hist EXCEPT !.firstFail =
                         IF @ = 0 /\ NotesOrder /\ (o.panics \/ o.err # Nil)
                         THEN gor[r].task ELSE @]
    /\ UNCHANGED <<obs, mode, n, tok, ch, recvq, inbox, eg, run, cl>>

\* The function returned by CtxApplyWatch, first statement: rv := Go(fc).
G_Launch(r) ==
    /\ gor[r].pc = "start" /\ gor[r].body = "watch"
    /\ gor' = [gor EXCEPT ![r].pc = "select",
                          ![InnerOf(r)] = NewGor("plain", gor[r].task, FALSE)]
    /\ UNCHANGED <<obs, mode, n, tok, ch, recvq, inbox, fret, eg, run, cl, hist>>

\* The function returned by CtxApplyWatch: rv.ReceiveWatch(ctx) enters its select.
G_Select(r) ==
    /\ gor[r].pc = "select"
    /\ RecvEnter(r, InnerOf(r), WatchTok)
    /\ gor' = [gor EXCEPT ![r].pc = "wait"]
    /\ UNCHANGED <<obs, mode, n, fret, eg, run, cl>>

\* The function returned by CtxApplyWatch: ReceiveWatch returns (or panics) and
\* with it fs(), whose SafeFunc0E turns a panic into an error.
G_Wake(r) ==
    /\ gor[r].pc = "wait" /\ inbox[r].kind # "none"
    /\ gor' = [gor EXCEPT ![r] = AfterFs(@, SafeFunc0E(ReceiveReturn(inbox[r])))]
    /\ inbox' = [inbox EXCEPT ![r] = NoMsg]
    /\ UNCHANGED <<obs, mode, n, tok, ch, recvq, fret, eg, run, cl, hist>>

G_SendTwice(r) ==
    /\ gor[r].pc = "send"
    /\ SendOp(r, OpenData(gor[r].res, gor[r].err))
    /\ gor' = [gor EXCEPT ![r].pc = IF hist.sent[r] = 0 THEN "send" ELSE "close"]
    /\ UNCHANGED <<obs, mode, n, fret, eg, run, cl>>

G_SendUnbuffered(r) ==
    /\ gor[r].pc = "send"
    /\ SendOpUnbuffered(r, OpenData(gor[r].res, gor[r].err))
    /\ gor' = [gor EXCEPT ![r].pc = "close"]
    /\ UNCHANGED <<obs, mode, n, fret, eg, run, cl>>

\* data := rdvData[T]{res, err, true}; rv.ch <- data
G_Send(r) ==
    /\ gor[r].pc = "send"
    /\ SendOp(r, OpenData(gor[r].res, gor[r].err))
    /\ gor' = [gor EXCEPT ![r].pc = "close"]
    /\ UNCHANGED <<obs, mode, n, fret, eg, run, cl>>

\* defer close(rv.ch), run when the goroutine's function returns.  In GoEg the
\* function then returns err to the group.
G_Close(r) ==
    /\ gor[r].pc = "close"
    /\ CloseOp(r)
    /\ gor' = [gor EXCEPT ![r].pc = IF gor[r].member THEN "report" ELSE "done"]
    /\ UNCHANGED <<obs, mode, n, fret, eg, run, cl>>

G_ReportNoCancel(r) ==
    /\ gor[r].pc = "report"
    /\ gor' = [gor EXCEPT ![r].pc = "wgdone"]
    /\ IF gor[r].err # Nil /\ ~eg.errSet
       THEN eg' = [eg EXCEPT !.errSet = TRUE, !.err = gor[r].err]
       ELSE UNCHANGED eg
    /\ UNCHANGED <<obs, mode, n, tok, recvq, inbox, ch, fret, run, cl, hist>>

G_ReportLast(r) ==
    /\ gor[r].pc = "report"
    /\ gor' = [gor EXCEPT ![r].pc = "wgdone"]
    /\ IF gor[r].err # Nil
       THEN /\ eg' = [eg EXCEPT !.errSet = TRUE, !.err = gor[r].err]
            /\ IF tok.egCtx = "live"
               THEN FireTok("egCtx", "Canceled")
               ELSE UNCHANGED <<tok, recvq, inbox>>
       ELSE UNCHANGED <<eg, tok, recvq, inbox>>
    /\ UNCHANGED <<obs, mode, n, ch, fret, run, cl, hist>>

\* errgroup's goroutine after the function given to eg.Go returned err: the
\* first non-nil err is kept and cancels the group's derived token.
G_Report(r) ==
    /\ gor[r].pc = "report"
    /\ gor' = [gor EXCEPT ![r].pc = "wgdone"]
    /\ IF gor[r].err # Nil /\ ~eg.errSet
       THEN /\ eg' = [eg EXCEPT !.errSet = TRUE, !.err = gor[r].err]
            /\ IF tok.egCtx = "live"
               THEN FireTok("egCtx", "Canceled")
               ELSE UNCHANGED <<tok, recvq, inbox>>
       ELSE UNCHANGED <<eg, tok, recvq, inbox>>
    /\ UNCHANGED <<obs, mode, n, ch, fret, run, cl, hist>>

\* errgroup's goroutine: defer g.wg.Done().
G_Done(r) ==
    /\ gor[r].pc = "wgdone"
    /\ gor' = [gor EXCEPT ![r].pc = "done"]
    /\ eg' = [eg EXCEPT !.wg = @ - 1]
    /\ UNCHANGED <<obs, mode, n, tok, ch, recvq, inbox, fret, run, cl, hist>>

GorNext ==
    \E r \in RdvIds :
        \/ G_Call(r)
        \/ G_Launch(r)
        \/ G_Select(r)
        \/ G_Wake(r)
        \/ G_Send(r)
        \/ G_Close(r)
        \/ G_Report(r)
        \/ G_Done(r)

---------------------------------------------------------------------------
(* The caller's token: a context with a cancel function and a deadline. *)

\* What is noted when the caller's token fires during a call of RunSliceEg, of
\* the function of CtxApplyWatch, or of a combinator run by GoSlice, Go2,
\* GoSliceEg or Go2Eg: whether no task function had ended yet.
FiredNote ==
    [hist EXCEPT !.firedFirst =
        /\ mode \in {"RunSliceEg", "GoWatch"} \/ gor[WrapRdv].pc # "none"
        /\ \A i \in Tasks : fret[i] = NoOutcome]

T_CancelKillsTask ==
    /\ tok.ctx = "live"
    /\ FireTok("ctx", "Canceled")
    /\ hist' = FiredNote
    /\ gor' = [r \in RdvIds |-> IF gor[r].pc = "start" THEN [gor[r] EXCEPT !.pc = "done"]
                                 ELSE gor[r]]
    /\ UNCHANGED <<obs, mode, n, ch, fret, eg, run, cl>>

\* cancel() is called on the caller's token.
T_Cancel ==
    /\ tok.ctx = "live"
    /\ FireTok("ctx", "Canceled")
    /\ hist' = FiredNote
    /\ UNCHANGED <<obs, mode, n, ch, gor, fret, eg, run, cl>>

\* The deadline of the caller's token passes.
T_Timeout ==
    /\ tok.ctx = "live"
    /\ FireTok("ctx", "DeadlineExceeded")
    /\ hist' = FiredNote
    /\ UNCHANGED <<obs, mode, n, ch, gor, fret, eg, run, cl>>

T_PropagateAsCanceled ==
    /\ tok.ctx \in Fired /\ tok.egCtx = "live"
    /\ FireTok("egCtx", "Canceled")
    /\ UNCHANGED <<obs, mode, n, ch, gor, fret, eg, run, cl, hist>>

\* The caller's token, once done, cancels the token errgroup.WithContext derived
\* from it, with its own error.
T_Propagate ==
    /\ tok.ctx \in Fired /\ tok.egCtx = "live"
    /\ FireTok("egCtx", tok.ctx)
    /\ UNCHANGED <<obs, mode, n, ch, gor, fret, eg, run, cl, hist>>

TokNext == T_Cancel \/ T_Timeout \/ T_Propagate

---------------------------------------------------------------------------
(* Client threads: callers of Receive / ReceiveWatch on the handle returned *)
(* by Go or GoEg.                                                           *)

NoCall == [op |-> "none", after |-> FALSE, first |-> FALSE, tokLive |-> FALSE]

NoResult == [op |-> "none", after |-> FALSE, first |-> FALSE, tokLive |-> FALSE,
             kind |-> "none", value |-> ZeroValue, err |-> Nil, payload |-> Nil,
             recAtFire |-> FALSE, taskRunning |-> FALSE]

\* What is noted of a call when it starts: whether a call on the handle had
\* already obtained the record, whether it is the first call on the handle, and
\* whether the token was still live.
CallEntry(op) ==
    [op |-> op, after |-> hist.got[TheRdv] > 0, first |-> hist.calls[TheRdv] = 0,
     tokLive |-> tok.ctx = "live"]

\* What is noted of a call when it ends: how (it returned the record, it
\* returned on the token, it panicked), with what, whether the record had been
\* written while the token was live, and whether the task was still running.
CallExit(cur, msg, o) ==
    [op |-> cur.op, after |-> cur.after, first |-> cur.first, tokLive |-> cur.tokLive,
     kind |-> IF o.panics THEN "panic" ELSE IF msg.kind = "ctx" THEN "ctx" ELSE "record",
     value |-> o.value, err |-> o.err, payload |-> o.payload,
     recAtFire |-> hist.sentTok[TheRdv] = "live",
     taskRunning |-> gor[TheRdv].pc \in {"start", "select", "wait"}]

\* func (rv Rdv[T]) Receive(): data := <-rv.ch
C_Receive(c) ==
    /\ mode \in PrimModes
    /\ cl[c].pc = "idle" /\ hist.calls[TheRdv] < MaxCalls
    /\ RecvEnter(c, TheRdv, "none")
    /\ cl' = [cl EXCEPT ![c].pc = "wait", ![c].cur = CallEntry("Receive")]
    /\ UNCHANGED <<obs, mode, n, gor, fret, eg, run>>

\* func (rv Rdv[T]) ReceiveWatch(ctx): select { case data = <-rv.ch; case <-ctx.Done() }
C_ReceiveWatch(c) ==
    /\ mode \in PrimModes
    /\ cl[c].pc = "idle" /\ hist.calls[TheRdv] < MaxCalls
    /\ RecvEnter(c, TheRdv, "ctx")
    /\ cl' = [cl EXCEPT ![c].pc = "wait", ![c].cur = CallEntry("ReceiveWatch")]
    /\ UNCHANGED <<obs, mode, n, gor, fret, eg, run>>

\* Receive / ReceiveWatch after its receive completed: panic on data of the
\* closed channel, else return data.value, data.err.  A panic ends the thread.
C_Return(c) ==
    /\ cl[c].pc = "wait" /\ inbox[c].kind # "none"
    /\ LET o == ReceiveReturn(inbox[c])
       IN  cl' = [cl EXCEPT ![c].pc = IF o.panics THEN "panicked" ELSE "idle",
                            ![c].cur = NoCall,
                            ![c].last = CallExit(cl[c].cur, inbox[c], o)]
    /\ inbox' = [inbox EXCEPT ![c] = NoMsg]
    /\ UNCHANGED <<obs, mode, n, tok, ch, recvq, gor, fret, eg, run, hist>>

ClientNext ==
    \E c \in Clients :
        \/ C_Receive(c)
        \/ C_ReceiveWatch(c)
        \/ C_Return(c)

---------------------------------------------------------------------------
(* The primitive: one handle made by Go or GoEg, held by the client threads. *)

NoEg == [exists |-> FALSE, errSet |-> FALSE, err |-> Nil, wg |-> 0]

\* errgroup.WithContext(ctx) followed by k calls of eg.Go.
NewEg(k) == [exists |-> TRUE, errSet |-> FALSE, err |-> Nil, wg |-> k]

NoRun == [pc |-> "none", i |-> 0, results |-> <<>>, isNil |-> FALSE, err |-> Nil,
          tokLive |-> FALSE]

\* What a call of Wait / Await returned: the error of Wait (errW) and, for
\* Await, the value and error it returned.
NoAwait == [done |-> FALSE, errW |-> Nil, value |-> ZeroValue, err |-> Nil]

\* A thread calling Wait / Await: where it is, its copy of the preWaiter's Err
\* field (the receiver of ErrWait is a value), whether its call is the one that
\* runs the function of WaitChGate.Do, and what its last call returned.
NoCaller == [pc |-> "idle", wErr |-> Nil, ran |-> FALSE, last |-> NoAwait]

\* Package obsolete before anything is constructed; MakeSingleWaiter,
\* MakeWgWaiter and MakeEgWaiter build the waiter with ActiveGate holding true,
\* a fresh sync.Once, open channels and a nil Err.
NoObs ==
    [activeGate |-> "true", once |-> "new", Err |-> Nil,
     waitCh |-> "open", complCh |-> "open",
     resWE |-> [Value |-> ZeroValue, Error |-> Nil], written |-> {},
     task |-> [i \in Tasks |-> [pc |-> "none", res |-> ZeroValue, err |-> Nil]],
     helper |-> [pc |-> "none", err |-> Nil],
     wg |-> 0, handled |-> 0, calls |-> 0, first |-> NoAwait,
     caller |-> [c \in Clients |-> NoCaller]]

\* No channel holds anything, no thread is blocked, no task function has ended,
\* no client has called.
InitRdv ==
    /\ ch = [r \in RdvIds |-> EmptyChan]
    /\ recvq = [r \in RdvIds |-> <<>>]
    /\ inbox = [t \in Threads |-> NoMsg]
    /\ fret = [i \in Tasks |-> NoOutcome]
    /\ cl = [c \in Clients |-> [pc |-> "idle", cur |-> NoCall, last |-> NoResult]]
    /\ hist = [sent |-> [r \in RdvIds |-> 0], closed |-> [r \in RdvIds |-> 0],
               got |-> [r \in RdvIds |-> 0], calls |-> [r \in RdvIds |-> 0],
               sentTok |-> [r \in RdvIds |-> "unsent"], firstFail |-> 0,
               firedFirst |-> FALSE]

\* Nothing of package obsolete is in use under the entry points of rdv and rdvext.
InitCommon ==
    /\ obs = NoObs
    /\ InitRdv

\* The state after rv := Go(f) or rv := GoEg(eg, f), where f is a task function
\* closed over the token by CtxApply.
Init ==
    /\ mode \in PrimModes
    /\ n = 1
    /\ InitCommon
    /\ tok = [ctx |-> "live", egCtx |-> IF mode \in EgModes THEN "live" ELSE "absent"]
    /\ eg = IF mode \in EgModes THEN NewEg(1) ELSE NoEg
    /\ gor = [r \in RdvIds |-> IF r = TheRdv THEN NewGor("plain", 1, mode \in EgModes)
                                ELSE NoGor]
    /\ run = NoRun

\* The goroutine of a handle made for a task function itself.
PlainGorNext ==
    \E r \in RdvIds :
        \/ G_Call(r)
        \/ G_Send(r)
        \/ G_Close(r)
        \/ G_Report(r)
        \/ G_Done(r)

Next == PlainGorNext \/ TokNext \/ ClientNext

Spec == Init /\ [][Next]_vars

\* The steps of the goroutine of Rdv r that the scheduler takes by itself: all
\* but the end of the task function, which is up to the task.
GorStep(r) ==
    \/ G_Launch(r) \/ G_Select(r) \/ G_Wake(r) \/ G_Send(r)
    \/ G_Close(r) \/ G_Report(r) \/ G_Done(r)

\* Go's scheduler runs every runnable goroutine, and a thread whose receive
\* completed returns from it; cancelling a token cancels its children.
FairSpec ==
    /\ Spec
    /\ \A r \in RdvIds : WF_vars(GorStep(r))
    /\ \A c \in Clients : WF_vars(C_Return(c))
    /\ WF_vars(T_Propagate)

\* The state after rv := Go(CtxApplyWatch(ctx, f)): the goroutine of rv runs the
\* function CtxApplyWatch returned, which starts f in a goroutine of its own.
InitWatch ==
    /\ mode = "GoWatch"
    /\ n = 1
    /\ InitCommon
    /\ tok = [ctx |-> "live", egCtx |-> "absent"]
    /\ eg = NoEg
    /\ gor = [r \in RdvIds |-> IF r = TheRdv THEN NewGor("watch", 1, FALSE) ELSE NoGor]
    /\ run = NoRun

NextWatch ==
    \/ \E r \in RdvIds :
          \/ G_Call(r)
          \/ G_Launch(r)
          \/ G_Select(r)
          \/ G_Wake(r)
          \/ G_Send(r)
          \/ G_Close(r)
    \/ T_Cancel
    \/ T_Timeout

SpecWatch == InitWatch /\ [][NextWatch]_vars

---------------------------------------------------------------------------
(* Claims about the primitive. *)

\* C1: on every Rdv made by Go or GoEg at most one record is ever written to
\* the channel, the channel is closed at most once and only after the record
\* was written, and at most one Receive / ReceiveWatch call obtains the record.
C1_OneShot ==
    \A r \in RdvIds :
        /\ hist.sent[r] <= 1
        /\ hist.closed[r] <= 1
        /\ ch[r].closed <=> hist.closed[r] = 1
        /\ hist.closed[r] = 1 => hist.sent[r] = 1
        /\ hist.got[r] <= 1
        /\ r = TheRdv => Cardinality({c \in Clients : cl[c].last.kind = "record"}) <= hist.got[r]

\* A GoEg handle whose record was written, obtained by one call, whose channel
\* was closed, and on which a second call was made.
C1_Witness ==
    /\ mode = "GoEg"
    /\ hist.sent[TheRdv] = 1 /\ hist.closed[TheRdv] = 1 /\ hist.got[TheRdv] = 1
    /\ hist.calls[TheRdv] = 2
    /\ \E c \in Clients : cl[c].last.kind = "record"

\* C2 (as claimed): when the function passed to Go panics, the goroutine does
\* not crash, it writes one record before it closes the channel, and a Receive
\* that obtains the record returns the zero value with a non-nil error built
\* from the panic payload.
C2_PanicBecomesError ==
    (mode = "Go" /\ fret[1].panics) =>
        /\ gor[TheRdv].pc # "crashed"
        /\ gor[TheRdv].pc \in {"close", "done"} => hist.sent[TheRdv] = 1
        /\ \A c \in Clients :
              (cl[c].last.op = "Receive" /\ cl[c].last.kind = "record") =>
                  /\ cl[c].last.value = ZeroValue
                  /\ cl[c].last.err # Nil
                  /\ cl[c].last.err = ToError(fret[1].payload)

\* C3: for a function f that does not panic, the first call on the handle of
\* Go(f), a Receive, does not complete before f returned, and returns exactly
\* the (value, error) that f returned.
C3_ReceiveReturnsResult ==
    (mode = "Go" /\ ~fret[1].panics) =>
        \A c \in Clients :
            /\ (cl[c].pc = "wait" /\ cl[c].cur.op = "Receive" /\ cl[c].cur.first
                    /\ inbox[c].kind # "none") =>
                   fret[1] # NoOutcome /\ inbox[c].data.chanOpen
            /\ (cl[c].last.op = "Receive" /\ cl[c].last.first) =>
                   /\ fret[1] # NoOutcome
                   /\ cl[c].last.kind = "record"
                   /\ cl[c].last.value = fret[1].value
                   /\ cl[c].last.err = fret[1].err

\* A first Receive that returned the non-zero value and the error f returned
\* together.
C3_Witness ==
    /\ mode = "Go"
    /\ fret[1] = Ret(11, TaskErr(1))
    /\ \E c \in Clients :
          /\ cl[c].last.op = "Receive" /\ cl[c].last.first
          /\ cl[c].last.value = 11 /\ cl[c].last.err = TaskErr(1)

\* A call that started after another call on the handle had obtained the
\* record never returns the record or any value of the channel: it panics with
\* the closed-rendezvous message, or (ReceiveWatch only) returns on the token
\* when the token fired.
C4_Safety ==
    \A c \in Clients :
        cl[c].last.after =>
            /\ cl[c].last.kind \in {"panic", "ctx"}
            /\ cl[c].last.kind = "panic" => cl[c].last.payload = ClosedRdvPayload
            /\ cl[c].last.kind = "ctx" =>
                  cl[c].last.op = "ReceiveWatch" /\ tok.ctx \in Fired

\* C4: a second Receive, or ReceiveWatch with a token that does not fire, on a
\* handle whose record a first call already obtained ends in the panic "attempt
\* to get data from closed rendezvous channel": it never returns a value and
\* never stays blocked.
C4_SecondReceivePanics ==
    /\ []C4_Safety
    /\ \A c \in Clients :
          (cl[c].pc = "wait" /\ cl[c].cur.after) ~>
              (cl[c].pc = "panicked" \/ (cl[c].last.kind = "ctx" /\ tok.ctx \in Fired))

\* A second call, both as Receive and as ReceiveWatch under a live token, that
\* ended in the panic.
C4_Witness ==
    /\ tok.ctx = "live"
    /\ \E c \in Clients :
          /\ cl[c].pc = "panicked" /\ cl[c].last.after
          /\ cl[c].last.op = "ReceiveWatch"
          /\ cl[c].last.payload = ClosedRdvPayload

\* C5: when the token fires while ReceiveWatch is blocked and the record was not
\* written before, the call is completed by the token at once, whatever the
\* task does, and returns the zero value with the token's own error.
C5_TokenFirst ==
    /\ \A r \in RdvIds : \A k \in DOMAIN recvq[r] :
          recvq[r][k].tok # "none" => tok[recvq[r][k].tok] = "live"
    /\ \A c \in Clients :
          /\ (cl[c].pc = "wait" /\ cl[c].cur.op = "ReceiveWatch" /\ cl[c].cur.tokLive
                  /\ tok.ctx \in Fired /\ hist.sentTok[TheRdv] # "live") =>
                 inbox[c] = CtxMsgOf(tok.ctx)
          /\ cl[c].last.kind = "ctx" =>
                 /\ cl[c].last.op = "ReceiveWatch"
                 /\ tok.ctx \in Fired
                 /\ cl[c].last.value = ZeroValue
                 /\ cl[c].last.err = ErrOfState(tok.ctx)

\* A ReceiveWatch that started under a live token and returned the deadline
\* error while the task function was still running.
C5_Witness ==
    \E c \in Clients :
        /\ cl[c].last.kind = "ctx" /\ cl[c].last.tokLive /\ cl[c].last.taskRunning
        /\ cl[c].last.err = DeadlineExceeded
        /\ fret[1] = NoOutcome

\* C6 (as claimed): if the record was written before the token fired, the first
\* call on the handle, a ReceiveWatch, returns the record's (value, error), also
\* when it is called after both happened.
C6_RecordFirst ==
    \A c \in Clients :
        (cl[c].last.op = "ReceiveWatch" /\ cl[c].last.first /\ cl[c].last.recAtFire) =>
            /\ cl[c].last.kind = "record"
            /\ cl[c].last.value = gor[TheRdv].res
            /\ cl[c].last.err = gor[TheRdv].err

\* C7: the goroutine's send never blocks: whenever it is about to send, the
\* channel is open and its buffer of capacity 1 is empty.
C7_SendNeverBlocks ==
    \A r \in RdvIds :
        gor[r].pc = "send" =>
            /\ ~ch[r].closed
            /\ ch[r].buf = <<>>
            /\ Len(ch[r].buf) < ChanCap

\* The goroutine sent and finished after the only call on the handle, a
\* ReceiveWatch, had returned the token's error: the record stays in the buffer.
C7_Witness ==
    /\ hist.sent[TheRdv] = 1 /\ hist.sentTok[TheRdv] \in Fired
    /\ hist.calls[TheRdv] = 1 /\ hist.got[TheRdv] = 0
    /\ gor[TheRdv].pc = "done" /\ ch[TheRdv].buf # <<>>
    /\ \E c \in Clients : cl[c].last.kind = "ctx"

---------------------------------------------------------------------------
(* The combinators of package rdvext: one call of RunSlice, Run2,           *)
(* RunSliceEg or Run2Eg, executed by the thread RunThread.                  *)

RECURSIVE LastError(_)
LastError(results) ==
    IF results = <<>> THEN Nil
    ELSE IF results[Len(results)].Error # Nil THEN results[Len(results)].Error
    ELSE LastError(SubSeq(results, 1, Len(results) - 1))

RECURSIVE FirstError(_)
\* RunSlice: for _, res := range results { if res.Error != nil { err = res.Error; break } }
FirstError(results) ==
    IF results = <<>> THEN Nil
    ELSE IF Head(results).Error # Nil THEN Head(results).Error
    ELSE FirstError(Tail(results))

Run2ErrorSecondFirst(results) ==
    LET errs == <<results[2].Error, results[1].Error>>
    IN  IF errs[1] # Nil THEN errs[1] ELSE IF errs[2] # Nil THEN errs[2] ELSE Nil

\* Run2: errs := []error{results.X1.Error, results.X2.Error}, and the same loop.
Run2Error(results) ==
    LET errs == <<results[1].Error, results[2].Error>>
    IN  IF errs[1] # Nil THEN errs[1] ELSE IF errs[2] # Nil THEN errs[2] ELSE Nil

IsEgRun == mode \in {"RunSliceEg", "Run2Eg"}

\* for i, f := range funcs { rvs[i] = rdv.Go(rdv.CtxApply(ctx, f)) }, or
\* rvs[i] = rdv.GoEg(eg, rdv.CtxApplyWatch(egCtx, f)), whose eg.Go adds to the
\* group's WaitGroup before it starts the goroutine.
R_Launch ==
    /\ run.pc = "launch"
    /\ gor' = [gor EXCEPT ![run.i] =
                  IF IsEgRun THEN NewGor("watch", run.i, TRUE)
                  ELSE NewGor("plain", run.i, FALSE)]
    /\ eg' = IF IsEgRun THEN [eg EXCEPT !.wg = @ + 1] ELSE eg
    /\ run' = IF run.i < n THEN [run EXCEPT !.i = @ + 1]
              ELSE [run EXCEPT !.i = 1, !.pc = IF IsEgRun THEN "egwait" ELSE "recv"]
    /\ UNCHANGED <<obs, mode, n, tok, ch, recvq, inbox, fret, cl, hist>>

R_SelectNoWatch ==
    /\ run.pc = "recv"
    /\ RecvEnter(RunThread, run.i, "none")
    /\ run' = [run EXCEPT !.pc = "wait"]
    /\ UNCHANGED <<obs, mode, n, gor, fret, eg, cl>>

\* results[i].Value, results[i].Error = rvs[i].ReceiveWatch(ctx): the select.
R_Select ==
    /\ run.pc = "recv"
    /\ RecvEnter(RunThread, run.i, "ctx")
    /\ run' = [run EXCEPT !.pc = "wait"]
    /\ UNCHANGED <<obs, mode, n, gor, fret, eg, cl>>

R_WakeDropCtx ==
    /\ run.pc = "wait" /\ inbox[RunThread].kind # "none"
    /\ LET o == ReceiveReturn(inbox[RunThread])
       IN  run' = IF o.panics THEN [run EXCEPT !.pc = "panicked"]
                  ELSE [run EXCEPT
                           !.results = IF inbox[RunThread].kind = "ctx" THEN @
                                       ELSE Append(@, [Value |-> o.value, Error |-> o.err]),
                           !.i = IF run.i < n THEN @ + 1 ELSE @,
                           !.pc = IF run.i < n THEN "recv" ELSE "sum"]
    /\ inbox' = [inbox EXCEPT ![RunThread] = NoMsg]
    /\ UNCHANGED <<obs, mode, n, tok, ch, recvq, gor, fret, eg, cl, hist>>

\* ReceiveWatch returns into results[i] (or panics), and the loop goes on.
R_Wake ==
    /\ run.pc = "wait" /\ inbox[RunThread].kind # "none"
    /\ LET o == ReceiveReturn(inbox[RunThread])
       IN  run' = IF o.panics THEN [run EXCEPT !.pc = "panicked"]
                  ELSE [run EXCEPT
                           !.results = Append(@, [Value |-> o.value, Error |-> o.err]),
                           !.i = IF run.i < n THEN @ + 1 ELSE @,
                           !.pc = IF run.i < n THEN "recv" ELSE "sum"]
    /\ inbox' = [inbox EXCEPT ![RunThread] = NoMsg]
    /\ UNCHANGED <<obs, mode, n, tok, ch, recvq, gor, fret, eg, cl, hist>>

R_SumNil ==
    /\ run.pc = "sum"
    /\ run' = [run EXCEPT !.pc = "returned", !.err = Nil,
                          !.tokLive = tok.ctx = "live"]
    /\ UNCHANGED <<obs, mode, n, tok, ch, recvq, inbox, gor, fret, eg, cl, hist>>

\* The summary error, and return results, err.
R_Sum ==
    /\ run.pc = "sum"
    /\ run' = [run EXCEPT !.pc = "returned",
                          !.err = IF mode = "Run2" THEN Run2Error(run.results)
                                  ELSE FirstError(run.results),
                          !.tokLive = tok.ctx = "live"]
    /\ UNCHANGED <<obs, mode, n, tok, ch, recvq, inbox, gor, fret, eg, cl, hist>>

R_WaitEarly ==
    /\ run.pc = "egwait"
    /\ IF tok.egCtx = "live" THEN FireTok("egCtx", "Canceled")
       ELSE UNCHANGED <<tok, recvq, inbox>>
    /\ run' = IF eg.err # Nil
              THEN [run EXCEPT !.pc = "returned", !.err = eg.err,
                               !.isNil = mode = "RunSliceEg",
                               !.results = IF mode = "RunSliceEg" THEN <<>>
                                           ELSE <<ZeroValue, ZeroValue>>,
                               !.tokLive = tok.ctx = "live"]
              ELSE IF n = 0
              THEN [run EXCEPT !.pc = "returned", !.tokLive = tok.ctx = "live"]
              ELSE [run EXCEPT !.pc = "drain", !.i = 1]
    /\ UNCHANGED <<obs, mode, n, ch, gor, fret, eg, cl, hist>>

R_WaitResets ==
    /\ run.pc = "egwait"
    /\ eg.wg = 0
    /\ IF tok.egCtx = "live" THEN FireTok("egCtx", "Canceled")
       ELSE UNCHANGED <<tok, recvq, inbox>>
    /\ run' = IF eg.err # Nil
              THEN [run EXCEPT !.pc = "returned", !.err = eg.err,
                               !.isNil = mode = "RunSliceEg",
                               !.results = IF mode = "RunSliceEg" THEN <<>>
                                           ELSE <<ZeroValue, ZeroValue>>,
                               !.tokLive = tok.ctx = "live"]
              ELSE IF n = 0
              THEN [run EXCEPT !.pc = "returned", !.tokLive = tok.ctx = "live"]
              ELSE [run EXCEPT !.pc = "drain", !.i = 1]
    /\ eg' = [eg EXCEPT !.errSet = FALSE, !.err = Nil]
    /\ UNCHANGED <<obs, mode, n, ch, gor, fret, cl, hist>>

R_WaitKeepResults ==
    /\ run.pc = "egwait"
    /\ eg.wg = 0
    /\ IF tok.egCtx = "live" THEN FireTok("egCtx", "Canceled")
       ELSE UNCHANGED <<tok, recvq, inbox>>
    /\ run' = IF n = 0
              THEN [run EXCEPT !.pc = "returned", !.tokLive = tok.ctx = "live"]
              ELSE [run EXCEPT !.pc = "drain", !.i = 1, !.err = eg.err]
    /\ UNCHANGED <<obs, mode, n, ch, gor, fret, eg, cl, hist>>

\* err := eg.Wait(): g.wg.Wait(), then g.cancel(), then return g.err; and
\* "if err != nil { return nil, err }" (Run2Eg returns its zero tuple).
R_Wait ==
    /\ run.pc = "egwait"
    /\ eg.wg = 0
    /\ IF tok.egCtx = "live" THEN FireTok("egCtx", "Canceled")
       ELSE UNCHANGED <<tok, recvq, inbox>>
    /\ run' = IF eg.err # Nil
              THEN [run EXCEPT !.pc = "returned", !.err = eg.err,
                               !.isNil = mode = "RunSliceEg",
                               !.results = IF mode = "RunSliceEg" THEN <<>>
                                           ELSE <<ZeroValue, ZeroValue>>,
                               !.tokLive = tok.ctx = "live"]
              ELSE IF n = 0
              THEN [run EXCEPT !.pc = "returned", !.tokLive = tok.ctx = "live"]
              ELSE [run EXCEPT !.pc = "drain", !.i = 1]
    /\ UNCHANGED <<obs, mode, n, ch, gor, fret, eg, cl, hist>>

R_DrainReversed ==
    /\ run.pc = "drain"
    /\ RecvEnter(RunThread, n + 1 - run.i, IF mode = "Run2Eg" THEN "ctx" ELSE "none")
    /\ run' = [run EXCEPT !.pc = "drainwait"]
    /\ UNCHANGED <<obs, mode, n, gor, fret, eg, cl>>

\* results[i], _ = rvs[i].Receive() in RunSliceEg;
\* results.X1, _ = rv1.ReceiveWatch(ctx) in Run2Eg.
R_Drain ==
    /\ run.pc = "drain"
    /\ RecvEnter(RunThread, run.i, IF mode = "Run2Eg" THEN "ctx" ELSE "none")
    /\ run' = [run EXCEPT !.pc = "drainwait"]
    /\ UNCHANGED <<obs, mode, n, gor, fret, eg, cl>>

\* Receive / ReceiveWatch returns its value into results[i], the error is
\* dropped; after the last one, return results, err.
R_DrainWake ==
    /\ run.pc = "drainwait" /\ inbox[RunThread].kind # "none"
    /\ LET o == ReceiveReturn(inbox[RunThread])
       IN  run' = IF o.panics THEN [run EXCEPT !.pc = "panicked"]
                  ELSE [run EXCEPT
                           !.results = Append(@, o.value),
                           !.i = IF run.i < n THEN @ + 1 ELSE @,
                           !.pc = IF run.i < n THEN "drain" ELSE "returned",
                           !.tokLive = tok.ctx = "live"]
    /\ inbox' = [inbox EXCEPT ![RunThread] = NoMsg]
    /\ UNCHANGED <<obs, mode, n, tok, ch, recvq, gor, fret, eg, cl, hist>>

RunThreadNext ==
    \/ R_Launch
    \/ R_Select
    \/ R_Wake
    \/ R_Sum
    \/ R_Wait
    \/ R_Drain
    \/ R_DrainWake

\* The state at the start of a call of a combinator with n task functions:
\* the slices rvs and results are empty, and the Eg variants have made their
\* group by errgroup.WithContext(ctx).
InitRun ==
    /\ mode \in RunModes
    /\ n \in IF mode \in {"Run2", "Run2Eg"} THEN {2} ELSE 0..MaxN
    /\ InitCommon
    /\ tok = [ctx |-> "live", egCtx |-> IF mode \in EgModes THEN "live" ELSE "absent"]
    /\ eg = IF mode \in EgModes THEN NewEg(0) ELSE NoEg
    /\ gor = [r \in RdvIds |-> NoGor]
    /\ run = [NoRun EXCEPT !.i = 1,
                           !.pc = IF n > 0 THEN "launch"
                                  ELSE IF mode \in EgModes THEN "egwait" ELSE "sum"]

NextRun == GorNext \/ TokNext \/ RunThreadNext

SpecRun == InitRun /\ [][NextRun]_vars

\* Every task function returns or panics in the end; the scheduler runs every
\* runnable goroutine; cancelling a token cancels its children.  Nothing is
\* assumed of the caller's thread or of the caller's token.
FairSpecRun ==
    /\ SpecRun
    /\ \A r \in RdvIds : WF_vars(G_Call(r))
    /\ \A r \in RdvIds : WF_vars(GorStep(r))
    /\ WF_vars(T_Propagate)

\* A call of RunSlice or Run2 alone: the goroutines are those of Go, there is
\* no group and no derived token.
InitSlice == InitRun /\ mode \in {"RunSlice", "Run2"}

NextSlice ==
    \/ \E r \in RdvIds : G_Call(r) \/ G_Send(r) \/ G_Close(r)
    \/ T_Cancel
    \/ T_Timeout
    \/ R_Launch
    \/ R_Select
    \/ R_Wake
    \/ R_Sum

SpecSlice == InitSlice /\ [][NextSlice]_vars

\* The steps of the thread that executes RunSlice / Run2.
SliceRunStep == R_Launch \/ R_Select \/ R_Wake \/ R_Sum

\* The scheduler runs the caller's thread and every goroutine that has got past
\* its task function.  Nothing is assumed of the task functions, which may run
\* forever, nor of the caller's token.
FairSpecSlice ==
    /\ SpecSlice
    /\ WF_vars(SliceRunStep)
    /\ \A r \in RdvIds : WF_vars(GorStep(r))

\* A call of RunSliceEg alone: the goroutines are those of GoEg running the
\* functions of CtxApplyWatch, and those of Go inside them.
InitEg == InitRun /\ mode = "RunSliceEg"

\* The steps of the thread that executes RunSliceEg.
EgRunStep == R_Launch \/ R_Wait \/ R_Drain \/ R_DrainWake

NextEg ==
    \/ GorNext
    \/ TokNext
    \/ EgRunStep

SpecEg == InitEg /\ [][NextEg]_vars

\* The scheduler runs every runnable goroutine and the caller's thread, and
\* cancelling a token cancels its children.  Nothing is assumed of the task
\* functions, which may run forever, nor of the caller's token.
FairSpecEg ==
    /\ SpecEg
    /\ \A r \in RdvIds : WF_vars(GorStep(r))
    /\ WF_vars(EgRunStep)
    /\ WF_vars(T_Propagate)

\* What a combinator returns besides its error: the results, and whether the
\* slice is nil.
RunValue == [results |-> run.results, isNil |-> run.isNil]

\* The goroutine of GoSlice / Go2 / GoSliceEg / Go2Eg, rdv.Go(f) with f calling
\* RunSlice / Run2 / RunSliceEg / Run2Eg: res, err := fs() ends when the
\* combinator, executed by this goroutine, returns (or panics).
W_Return ==
    /\ gor[WrapRdv].pc = "start" /\ gor[WrapRdv].body = "run"
    /\ run.pc \in {"returned", "panicked"}
    /\ LET o == IF run.pc = "panicked" THEN Panic(ClosedRdvPayload)
                ELSE Ret(RunValue, run.err)
       IN  gor' = [gor EXCEPT ![WrapRdv] = AfterFs(@, SafeFunc0E(o))]
    /\ UNCHANGED <<obs, mode, n, tok, ch, recvq, inbox, fret, eg, run, cl, hist>>

\* The state after rv := GoSlice(ctx, funcs...), Go2(ctx, f1, f2),
\* GoSliceEg(ctx, funcs...) or Go2Eg(ctx, f1, f2): the goroutine of rv is about
\* to execute the combinator.
InitGo ==
    /\ mode \in RunModes
    /\ n \in IF mode \in {"Run2", "Run2Eg"} THEN {2} ELSE 0..MaxN
    /\ InitCommon
    /\ tok = [ctx |-> "live", egCtx |-> IF mode \in EgModes THEN "live" ELSE "absent"]
    /\ eg = IF mode \in EgModes THEN NewEg(0) ELSE NoEg
    /\ gor = [r \in RdvIds |-> IF r = WrapRdv THEN NewGor("run", 0, FALSE) ELSE NoGor]
    /\ run = [NoRun EXCEPT !.i = 1,
                           !.pc = IF n > 0 THEN "launch"
                                  ELSE IF mode \in EgModes THEN "egwait" ELSE "sum"]

NextGo ==
    \/ GorNext
    \/ TokNext
    \/ RunThreadNext
    \/ W_Return

SpecGo == InitGo /\ [][NextGo]_vars

---------------------------------------------------------------------------
(* Claims about the combinators. *)

\* Every goroutine that was started has ended.
AllGoroutinesDone == \A r \in RdvIds : gor[r].pc \in {"none", "done"}

\* C8: in a call of RunSlice, Run2, RunSliceEg or Run2Eg whose task functions
\* all return or panic in the end, every goroutine the call starts (those of
\* Go inside CtxApplyWatch included) ends, whatever the caller's thread and the
\* caller's token do.
C8_GoroutinesTerminate == <>[]AllGoroutinesDone

\* RunSliceEg returned the first failure while the record of the other task,
\* which ended later, stays uncollected in the channel made inside
\* CtxApplyWatch; all four goroutines ended.
C8_Witness ==
    /\ mode = "RunSliceEg" /\ n = 2
    /\ run.pc = "returned" /\ run.err = TaskErr(2)
    /\ \A r \in {1, 2, InnerOf(1), InnerOf(2)} : gor[r].pc = "done"
    /\ ch[InnerOf(1)].buf # <<>>
    /\ tok.ctx = "live"

\* C9: RunSlice over n task functions that all return a nil error, under a
\* token that does not fire during the call, returns n results that hold the
\* tasks' values in argument order with nil Error, and a nil summary error.
C9_AllSucceed ==
    (/\ mode = "RunSlice" /\ run.pc = "returned" /\ run.tokLive
     /\ \A i \in 1..n : ~fret[i].panics /\ fret[i].err = Nil) =>
        /\ Len(run.results) = n
        /\ \A i \in 1..n :
              /\ fret[i] # NoOutcome
              /\ run.results[i] = [Value |-> fret[i].value, Error |-> Nil]
        /\ run.err = Nil

\* RunSlice over two succeeding tasks returned both values in argument order.
C9_Witness ==
    /\ mode = "RunSlice" /\ n = 2 /\ run.pc = "returned" /\ run.tokLive
    /\ run.results = <<[Value |-> 1, Error |-> Nil], [Value |-> 2, Error |-> Nil]>>
    /\ run.err = Nil

\* The task function i of a call failed: it returned an error or panicked.
Failed(i) == fret[i].panics \/ fret[i].err # Nil

\* The error the claims expect of a failed task: the error it returned, or the
\* error made of its panic payload.
ClaimedErr(o) == IF o.panics THEN ToError(o.payload) ELSE o.err

\* The error the goroutine of a task delivers: the error the task returned, the
\* error made of its panic payload, and nil after panic(nil).
DeliveredErr(o) ==
    IF ~o.panics THEN o.err
    ELSE IF o.payload = Nil THEN Nil
    ELSE IF IsError(o.payload) THEN o.payload ELSE ErrorOf(o.payload)

MinOf(S) == CHOOSE i \in S : \A j \in S : i <= j

IsRecordOf(e, i) ==
    /\ hist.sent[i] = 1
    /\ e = [Value |-> gor[i].res, Error |-> gor[i].err]

\* The entry is what ReceiveWatch returns on the token: the zero value and the
\* token's error.
IsTokenEntry(e) ==
    /\ tok.ctx \in Fired
    /\ e = [Value |-> ZeroValue, Error |-> ErrOfState(tok.ctx)]

\* C11: RunSlice never panics, and whenever it returns, results has exactly one
\* entry per task function, the entry at index i being that of task i: the
\* record task i's goroutine wrote, or the zero value with the token's error.
\* While it collects, the entries it has are those of tasks 1..i-1 in order.
C11_OneEntryPerTask ==
    mode = "RunSlice" =>
        /\ run.pc # "panicked"
        /\ run.pc \in {"recv", "wait"} => Len(run.results) = run.i - 1
        /\ run.pc \in {"sum", "returned"} => Len(run.results) = n
        /\ \A i \in 1..Len(run.results) :
              IsRecordOf(run.results[i], i) \/ IsTokenEntry(run.results[i])

\* RunSlice returned two entries after the token fired: the record of task 1,
\* which failed, and the token's error for task 2, which had not ended.
C11_Witness ==
    /\ mode = "RunSlice" /\ n = 2 /\ run.pc = "returned"
    /\ run.results[1] = [Value |-> 11, Error |-> TaskErr(1)]
    /\ run.results[2] = [Value |-> ZeroValue, Error |-> DeadlineExceeded]
    /\ fret[2] = NoOutcome

\* C12 (as claimed): in RunSlice, a task whose record was not written while
\* the token was live (it was written after the token fired, or not at all) has
\* the entry (zero value, token's error) in the result.
C12_TokenBeforeRecord ==
    (mode = "RunSlice" /\ run.pc = "returned") =>
        \A i \in 1..n :
            hist.sentTok[i] # "live" =>
                /\ tok.ctx \in Fired
                /\ run.results[i] = [Value |-> ZeroValue, Error |-> ErrOfState(tok.ctx)]

\* C13 (as claimed): in RunSlice and Run2, a task function that had returned,
\* and whose record was written, before the token fired has its own (value,
\* error) in its entry, whenever the token fires.
C13_ReturnedKeepsResult ==
    (mode \in {"RunSlice", "Run2"} /\ run.pc = "returned") =>
        \A i \in 1..n :
            (hist.sentTok[i] = "live" /\ ~fret[i].panics) =>
                run.results[i] = [Value |-> fret[i].value, Error |-> fret[i].err]

\* C14: when RunSliceEg returns under a token that has not fired, and no task
\* function has panicked or returned an error, then every task function has
\* returned, the error is nil and results is a slice of length n whose i-th
\* element is the value task i returned.
C14_EgAllSucceed ==
    (/\ mode = "RunSliceEg" /\ run.pc = "returned" /\ run.tokLive
     /\ \A i \in 1..n : ~fret[i].panics /\ fret[i].err = Nil) =>
        /\ \A i \in 1..n : fret[i] # NoOutcome
        /\ run.err = Nil
        /\ ~run.isNil
        /\ Len(run.results) = n
        /\ \A i \in 1..n : run.results[i] = fret[i].value

\* RunSliceEg over two succeeding tasks returned both values in argument order.
C14_Witness ==
    /\ mode = "RunSliceEg" /\ n = 2 /\ run.pc = "returned" /\ run.tokLive
    /\ fret[1] = Ret(1, Nil) /\ fret[2] = Ret(2, Nil)
    /\ run.results = <<1, 2>> /\ run.err = Nil /\ ~run.isNil

\* C15: RunSliceEg never panics, and whenever it returns a non-nil error its
\* results slice is nil, whatever the tasks delivered; a non-nil results slice
\* comes with a nil error and has one element per task.
C15_ErrorMeansNilResults ==
    mode = "RunSliceEg" =>
        /\ run.pc # "panicked"
        /\ run.pc \in {"drain", "drainwait"} => eg.err = Nil /\ run.err = Nil
        /\ run.pc = "returned" =>
              /\ run.err = eg.err
              /\ run.err # Nil => run.isNil /\ run.results = <<>>
              /\ ~run.isNil => run.err = Nil /\ Len(run.results) = n

\* RunSliceEg returned task 2's error and nil results although task 1 had
\* succeeded and its value had been delivered to the handle of task 1.
C15_Witness ==
    /\ mode = "RunSliceEg" /\ n = 2 /\ run.pc = "returned"
    /\ run.err = TaskErr(2) /\ run.isNil /\ run.results = <<>>
    /\ fret[1] = Ret(1, Nil)
    /\ ch[1].buf = <<OpenData(1, Nil)>>

\* Member r of the group fails in this step: the function GoEg gave to eg.Go
\* has returned a non-nil error, which reaches the group.
MemberFails(r) ==
    gor[r].pc = "report" /\ gor'[r].pc = "wgdone" /\ gor[r].err # Nil

\* The group's error is set by the first member that fails, to that member's
\* error, and never changes afterwards.
C16_FirstFailureSticks ==
    /\ eg.errSet => eg'.errSet /\ eg'.err = eg.err
    /\ ~eg.errSet =>
          /\ eg'.errSet => \E r \in 1..n : MemberFails(r) /\ eg'.err = gor[r].err
          /\ \A r \in 1..n : MemberFails(r) => eg'.errSet /\ eg'.err = gor[r].err
          /\ ~eg'.errSet => eg'.err = Nil

\* The error RunSliceEg / Run2Eg returns is the group's error.
C16_ReturnsGroupError ==
    (IsEgRun /\ run.pc = "returned") => run.err = eg.err

\* C16: the error returned by RunSliceEg and Run2Eg is the error of the group
\* member that fails first in time (the first whose failure reaches the group),
\* at whatever argument position; the errors of members that fail later never
\* replace it.
C16_FirstFailureWins ==
    /\ []C16_ReturnsGroupError
    /\ [][C16_FirstFailureSticks]_vars

\* RunSliceEg returned the error of task 2, whose member failed first, while
\* member 1 failed later with task 1's own error, which was suppressed.
C16_Witness ==
    /\ mode = "RunSliceEg" /\ n = 2 /\ run.pc = "returned"
    /\ run.err = TaskErr(2)
    /\ gor[1].pc = "done" /\ gor[1].err = TaskErr(1)
    /\ gor[2].pc = "done" /\ gor[2].err = TaskErr(2)

\* C17: once a member of a RunSliceEg group has failed, the group's token is
\* cancelled and RunSliceEg returns, with that member's error and nil results,
\* also when task functions of other members are still running and never return.
C17_FailFast ==
    /\ [](mode = "RunSliceEg" /\ eg.errSet => tok.egCtx \in Fired)
    /\ [](mode = "RunSliceEg" /\ run.pc = "returned" /\ eg.errSet =>
              run.err = eg.err /\ run.err # Nil /\ run.isNil)
    /\ (mode = "RunSliceEg" /\ eg.errSet) ~> (run.pc = "returned")

\* RunSliceEg returned task 1's error while the function of task 2 was still
\* running: the goroutine made for it by Go has not got past its call.
C17_Witness ==
    /\ mode = "RunSliceEg" /\ n = 2 /\ run.pc = "returned"
    /\ run.err = TaskErr(1) /\ run.isNil
    /\ fret[2] = NoOutcome /\ gor[InnerOf(2)].pc = "start"
    /\ tok.ctx = "live"

\* C18 (as claimed): when the caller's token fires before any task function
\* given to RunSliceEg has ended, RunSliceEg returns nil results and the token's
\* error, never a task's error and never a nil error.
C18_TokenFirstEg ==
    (mode = "RunSliceEg" /\ n > 0 /\ run.pc = "returned" /\ hist.firedFirst) =>
        /\ run.isNil
        /\ run.err = ErrOfState(tok.ctx)

\* C19 (as claimed): under a token that has not fired, a task that panics has
\* the entry (zero value, error made of the panic payload) in RunSlice's result;
\* and when it is the only member of a RunSliceEg group that ends in an error
\* or a panic, RunSliceEg returns that same error and nil results.
C19_PanicInCombinators ==
    /\ (mode = "RunSlice" /\ run.pc = "returned" /\ run.tokLive) =>
           \A i \in 1..n :
               fret[i].panics =>
                   /\ run.results[i].Value = ZeroValue
                   /\ run.results[i].Error # Nil
                   /\ run.results[i].Error = ToError(fret[i].payload)
    /\ (mode = "RunSliceEg" /\ run.pc = "returned" /\ run.tokLive) =>
           \A i \in 1..n :
               (fret[i].panics /\ \A j \in (1..n) \ {i} : ~Failed(j)) =>
                   /\ run.err # Nil
                   /\ run.err = ToError(fret[i].payload)
                   /\ run.isNil

\* C20 (as claimed): fs := SafeFunc0E(f); res, err := fs(), as the goroutine of
\* Go and GoEg runs it, never panics; when f returned, (res, err) is what f
\* returned; when f panicked, with whatever payload, res is the zero value and
\* err is not nil.
C20_SafeFuncNeverPanics ==
    (mode \in PrimModes /\ fret[1] # NoOutcome) =>
        /\ ~SafeFunc0E(fret[1]).panics
        /\ gor[TheRdv].pc # "crashed"
        /\ gor[TheRdv].res = SafeFunc0E(fret[1]).value
        /\ gor[TheRdv].err = SafeFunc0E(fret[1]).err
        /\ ~fret[1].panics =>
              gor[TheRdv].res = fret[1].value /\ gor[TheRdv].err = fret[1].err
        /\ fret[1].panics =>
              gor[TheRdv].res = ZeroValue /\ gor[TheRdv].err # Nil

\* The values a panic payload or an error may be in the model.
ErrorValues ==
    {TaskErr(i) : i \in Tasks} \cup {ErrPayload(i) : i \in Tasks}
        \cup {Canceled, DeadlineExceeded}
NonErrorValues == {StrPayload(i) : i \in Tasks} \cup {ClosedRdvPayload, Nil}

WaitReturned == IsEgRun /\ run.pc \in {"drain", "drainwait", "returned"}

\* What eg.Wait() returns when called in the current state: g.err, once the
\* group's WaitGroup is at zero.
WaitOutcome == eg.err

\* The outcome of the group does not change in this step once it is recorded:
\* after a first error, and after Wait returned (with an error or with none),
\* the group's error stays what it is and its WaitGroup stays at zero.
C22_OutcomeKept ==
    /\ eg.errSet => eg'.errSet /\ eg'.err = eg.err
    /\ WaitReturned => eg'.err = eg.err /\ eg.wg = 0 /\ eg'.wg = 0

\* C22: the group's outcome is terminal: a recorded first error never changes,
\* and from the moment Wait returned, a Wait called again would not block and
\* would return the outcome the first Wait returned.
C22_JoinIdempotent ==
    /\ [](WaitReturned => eg.wg = 0 /\ (eg.errSet <=> eg.err # Nil))
    /\ [](WaitReturned /\ run.pc = "returned" => WaitOutcome = run.err)
    /\ [][C22_OutcomeKept]_vars

\* Run2Eg returned task 1's error; member 2, woken by the group's cancelled
\* token, reported a cancellation error afterwards, and the outcome is still
\* task 1's error.
C22_Witness ==
    /\ mode = "Run2Eg" /\ run.pc = "returned" /\ run.err = TaskErr(1)
    /\ gor[2].pc = "done" /\ gor[2].err = Canceled
    /\ WaitOutcome = TaskErr(1)

\* C23 (as claimed): whenever Run2Eg returns a nil error after f1 and f2 both
\* returned (neither panicked), the tuple it returns holds f1's value in X1 and
\* f2's value in X2, whenever the caller's token fires.
C23_Run2EgValues ==
    (/\ mode = "Run2Eg" /\ run.pc = "returned" /\ run.err = Nil
     /\ \A i \in 1..2 : fret[i] # NoOutcome /\ ~fret[i].panics) =>
        run.results = <<fret[1].value, fret[2].value>>

\* C24: a member started by GoEg has written its record before it returns to
\* the group; so when the group's Wait has returned nil in RunSliceEg every
\* member's record has been written and its channel closed, the record of every
\* handle not yet drained is in its buffer, and each Receive of the drain
\* completes at once with the record: it never blocks and never panics.
C24_DrainNeverBlocks ==
    /\ \A r \in RdvIds :
          (gor[r].member /\ gor[r].pc \in {"report", "wgdone", "done"}) =>
              hist.sent[r] = 1 /\ ch[r].closed
    /\ mode = "RunSliceEg" =>
          /\ run.pc # "panicked"
          /\ run.pc \in {"drain", "drainwait"} =>
                /\ eg.err = Nil
                /\ \A i \in 1..n : hist.sent[i] = 1 /\ gor[i].pc = "done"
                /\ \A i \in 1..n :
                      (i > run.i \/ (i = run.i /\ run.pc = "drain")) =>
                          ch[i].buf = <<OpenData(gor[i].res, Nil)>>
          /\ run.pc = "drainwait" =>
                /\ recvq[run.i] = <<>>
                /\ inbox[RunThread] = DataMsg(OpenData(gor[run.i].res, Nil))

\* RunSliceEg has drained the first handle and is about to receive from the
\* second, whose record waits in the closed channel.
C24_Witness ==
    /\ mode = "RunSliceEg" /\ n = 2 /\ run.pc = "drain" /\ run.i = 2
    /\ run.results = <<1>>
    /\ ch[1].buf = <<>> /\ ch[2].buf = <<OpenData(2, Nil)>> /\ ch[2].closed

\* The token fires in this step.
TokenFires == tok.ctx = "live" /\ tok'.ctx \in Fired

\* Client c returns from ReceiveWatch on the token in this step.
ReturnsOnToken(c) ==
    cl[c].pc = "wait" /\ cl'[c].pc = "idle" /\ inbox[c].kind = "ctx"

\* Client c starts a Receive in this step.
StartsReceive(c) ==
    cl[c].pc = "idle" /\ cl'[c].pc = "wait" /\ cl'[c].cur.op = "Receive"

\* Neither the firing of the token nor a ReceiveWatch that returns on it
\* changes the task's goroutine, the task's outcome, the channel or the count
\* of records obtained; and a Receive that starts while the record is in the
\* channel obtains it at once.
C25_Frame ==
    /\ TokenFires => UNCHANGED <<gor, fret, ch, hist.sent, hist.got, hist.closed>>
    /\ \A c \in Clients :
          ReturnsOnToken(c) =>
              UNCHANGED <<gor, fret, ch, hist.sent, hist.got, hist.closed>>
    /\ \A c \in Clients :
          (StartsReceive(c) /\ ch[TheRdv].buf # <<>>) =>
              inbox'[c] = DataMsg(OpenData(gor[TheRdv].res, gor[TheRdv].err))

\* C25: a ReceiveWatch that returns because the token fired leaves the handle
\* and the task untouched: the goroutine goes on as before and writes its
\* record as ever; as long as no call has obtained the record it stays in the
\* channel, however many calls returned on the token; a later Receive obtains
\* it and returns it; a Receive panics only when a call has obtained the record.
C25_TokenReturnLeavesHandle ==
    /\ [][C25_Frame]_vars
    /\ []((hist.sent[TheRdv] = 1 /\ hist.got[TheRdv] = 0) =>
             ch[TheRdv].buf = <<OpenData(gor[TheRdv].res, gor[TheRdv].err)>>)
    /\ [](\A c \in Clients :
             cl[c].last.op = "Receive" =>
                 \/ /\ cl[c].last.kind = "record"
                    /\ cl[c].last.value = gor[TheRdv].res
                    /\ cl[c].last.err = gor[TheRdv].err
                 \/ /\ cl[c].last.kind = "panic"
                    /\ hist.got[TheRdv] = 1)

\* A ReceiveWatch returned the deadline error while the task was running; the
\* task then returned (1, nil) and a Receive started after the token had fired
\* returned that record.
C25_Witness ==
    /\ mode = "Go" /\ fret[1] = Ret(1, Nil)
    /\ \E c \in Clients : \E d \in Clients \ {c} :
          /\ cl[d].last.kind = "ctx" /\ cl[d].last.taskRunning /\ cl[d].last.first
          /\ cl[d].last.err = DeadlineExceeded
          /\ cl[c].last.op = "Receive" /\ ~cl[c].last.tokLive /\ ~cl[c].last.first
          /\ cl[c].last.kind = "record" /\ cl[c].last.value = 1

\* C26: once the token has fired RunSlice returns, also when task functions
\* never return; under a live token it is past task j only after task j's record
\* was delivered to it, so it returns only when every task has delivered; and
\* once every task has written its record it returns.
C26_ReturnsOnTokenOrAll ==
    /\ [](mode = "RunSlice" /\ tok.ctx = "live" =>
             \A j \in 1..n :
                 (run.pc \in {"sum", "returned"} \/ (run.pc \in {"recv", "wait"} /\ j < run.i))
                     => hist.got[j] = 1)
    /\ [](mode = "RunSlice" /\ run.pc = "returned" /\ run.tokLive =>
             \A j \in 1..n : hist.got[j] = 1 /\ fret[j] # NoOutcome)
    /\ (mode = "RunSlice" /\ tok.ctx \in Fired) ~> (run.pc = "returned")
    /\ (mode = "RunSlice" /\ \A j \in 1..n : hist.sent[j] = 1) ~> (run.pc = "returned")

\* RunSlice returned after the deadline passed although neither task function
\* had returned: both entries carry the token's error.
C26_Witness ==
    /\ mode = "RunSlice" /\ n = 2 /\ run.pc = "returned"
    /\ fret[1] = NoOutcome /\ fret[2] = NoOutcome
    /\ \A i \in 1..2 : run.results[i] = [Value |-> ZeroValue, Error |-> DeadlineExceeded]
    /\ run.err = DeadlineExceeded

\* Member r is blocked in the select of rv.ReceiveWatch(egCtx) of CtxApplyWatch.
MemberWaiting(r) ==
    gor[r].member /\ gor[r].pc = "wait" /\ r \in WaitersOn(recvq[InnerOf(r)], "egCtx")

\* In this step: when the derived token is cancelled, every member blocked in
\* CtxApplyWatch is completed by it; a member completed by the token goes on to
\* write (zero value, the derived token's error) to its own Rdv; and a step
\* that changes the caller's token is no step of the group, of a member or of a
\* task.
C27_Step ==
    /\ (tok.egCtx = "live" /\ tok'.egCtx \in Fired) =>
          \A r \in 1..n : MemberWaiting(r) => inbox'[r] = CtxMsgOf(tok'.egCtx)
    /\ \A r \in 1..n :
          (gor[r].member /\ gor[r].pc = "wait" /\ inbox[r].kind = "ctx"
               /\ gor'[r].pc # "wait") =>
              /\ gor'[r].pc = "send"
              /\ gor'[r].res = ZeroValue
              /\ gor'[r].err = ErrOfState(tok.egCtx)
    /\ tok'.ctx # tok.ctx =>
          /\ tok.ctx = "live"
          /\ UNCHANGED <<gor, fret, eg, run, ch>>

\* C27: in a RunSliceEg / Run2Eg group, once a member has reported an error the
\* derived token is cancelled, and every member then waiting in CtxApplyWatch is
\* completed by it and writes a cancellation error to its own Rdv; when the
\* caller's token fires the derived token is cancelled too, with the caller's
\* token's error; the caller's token is changed by no step of the group.
C27_DerivedTokenCancelled ==
    /\ [](IsEgRun /\ eg.errSet => tok.egCtx \in Fired)
    /\ [](IsEgRun /\ tok.egCtx \in Fired /\ ~eg.errSet /\ run.pc \in {"launch", "egwait"}
             => tok.egCtx = tok.ctx)
    /\ [](\A r \in 1..n : ~(MemberWaiting(r) /\ tok.egCtx \in Fired))
    /\ [][C27_Step]_vars
    /\ (IsEgRun /\ tok.ctx \in Fired) ~> (tok.egCtx \in Fired)

\* Member 1 failed with task 1's error; member 2, whose task function has not
\* ended, wrote a cancellation error to its Rdv; the caller's token is live.
C27_Witness ==
    /\ mode = "RunSliceEg" /\ n = 2
    /\ eg.err = TaskErr(1)
    /\ tok.egCtx = "Canceled" /\ tok.ctx = "live"
    /\ fret[2] = NoOutcome
    /\ ch[2].buf = <<OpenData(ZeroValue, Canceled)>>

\* The function CtxApplyWatch returned has returned (res, err) to the goroutine
\* that ran it.
WatchReturned == gor[TheRdv].pc \in {"send", "close", "done"}

\* C28 (as claimed): the function returned by CtxApplyWatch(ctx, f) returns what
\* f returned whenever ctx did not fire before f returned, and returns the zero
\* value and ctx's error whenever ctx fired before f returned.
C28_WatchReturnsFOrToken ==
    (mode = "GoWatch" /\ WatchReturned) =>
        /\ (~hist.firedFirst /\ ~fret[1].panics) =>
              /\ fret[1] # NoOutcome
              /\ gor[TheRdv].res = fret[1].value
              /\ gor[TheRdv].err = fret[1].err
        /\ hist.firedFirst =>
              /\ gor[TheRdv].res = ZeroValue
              /\ gor[TheRdv].err = ErrOfState(tok.ctx)

\* C29: Run2(ctx, f1, f2) and RunSlice(ctx, f1, f2) take the same steps, and in
\* every state either of them reaches, X1 and X2 (entries 1 and 2) are each the
\* record of the task of that position or the token's entry, and the summary
\* error returned is the one Run2's loop over <<X1.Error, X2.Error>> and
\* RunSlice's loop over results both compute: X1.Error if it is not nil, else
\* X2.Error, else nil.
C29_Run2AsRunSlice ==
    (mode \in {"RunSlice", "Run2"} /\ n = 2) =>
        /\ run.pc # "panicked"
        /\ \A i \in 1..Len(run.results) :
              IsRecordOf(run.results[i], i) \/ IsTokenEntry(run.results[i])
        /\ run.pc \in {"sum", "returned"} =>
              /\ Len(run.results) = 2
              /\ Run2Error(run.results) = FirstError(run.results)
        /\ run.pc = "returned" =>
              /\ run.err = Run2Error(run.results)
              /\ run.err = FirstError(run.results)
              /\ run.err = IF run.results[1].Error # Nil THEN run.results[1].Error
                           ELSE IF run.results[2].Error # Nil THEN run.results[2].Error
                           ELSE Nil

\* Run2 returned with both entries carrying errors, f1's panic and f2's error:
\* the summary error is X1's.
C29_Witness ==
    /\ mode = "Run2" /\ run.pc = "returned"
    /\ run.results[1] = [Value |-> ZeroValue, Error |-> ErrorOf(StrPayload(1))]
    /\ run.results[2] = [Value |-> 12, Error |-> TaskErr(2)]
    /\ run.err = ErrorOf(StrPayload(1))

\* C30 (as claimed): the Rdv returned by GoSlice, Go2, GoSliceEg or Go2Eg gets
\* exactly one record, written when the combinator has returned and equal to
\* the (results, error) the combinator returned; and when the token fired before
\* any task function ended, the record's error is the token's error.
C30_GoWrappers ==
    gor[WrapRdv].pc # "none" =>
        /\ gor[WrapRdv].pc # "crashed"
        /\ hist.sent[WrapRdv] <= 1 /\ hist.closed[WrapRdv] <= 1
        /\ ch[WrapRdv].closed => hist.sent[WrapRdv] = 1
        /\ hist.sent[WrapRdv] = 1 =>
              /\ run.pc = "returned"
              /\ ch[WrapRdv].buf = <<OpenData(RunValue, run.err)>>
        /\ (hist.sent[WrapRdv] = 1 /\ n > 0 /\ hist.firedFirst) =>
              ch[WrapRdv].buf[1].err = ErrOfState(tok.ctx)

\* C31: in every return of RunSlice and of Run2, under a live or a fired
\* token, the summary error is nil exactly when every entry of the returned
\* results has a nil Error, and else it is the Error of the entry of lowest
\* index whose Error is not nil.
C31_SummaryOfEntries ==
    (mode \in {"RunSlice", "Run2"} /\ run.pc = "returned") =>
        LET F == {i \in 1..Len(run.results) : run.results[i].Error # Nil}
        IN  /\ Len(run.results) = n
            /\ run.err = Nil <=> F = {}
            /\ F # {} => run.err = run.results[MinOf(F)].Error

\* RunSlice returned after a cancellation: entry 1 is task 1's success, entry 2
\* carries the token's error, which is the summary error.
C31_Witness ==
    /\ mode = "RunSlice" /\ n = 2 /\ run.pc = "returned"
    /\ run.results[1] = [Value |-> 1, Error |-> Nil]
    /\ run.results[2] = [Value |-> ZeroValue, Error |-> Canceled]
    /\ run.err = Canceled

\* C32: when the caller's token has not fired by the time RunSliceEg returns
\* (and no task function returns a context error, as none does here), the error
\* RunSliceEg returns is never the cancellation error of the group's derived
\* token: it is nil or the error some failed task delivered.
C32_NoInducedCancellation ==
    /\ \A r \in 1..n :
          (mode = "RunSliceEg" /\ tok.ctx = "live" /\ gor[r].pc \in {"send", "close", "report"}
               /\ gor[r].err \in {Canceled, DeadlineExceeded}) => eg.errSet
    /\ (mode = "RunSliceEg" /\ run.pc = "returned" /\ run.tokLive) =>
          /\ run.err \notin {Canceled, DeadlineExceeded}
          /\ run.err # Nil =>
                \E i \in 1..n : Failed(i) /\ run.err = DeliveredErr(fret[i])

\* Task 2 failed; member 1 observed the group's cancellation and reported
\* context.Canceled afterwards; RunSliceEg returned task 2's error.
C32_Witness ==
    /\ mode = "RunSliceEg" /\ n = 2 /\ run.pc = "returned" /\ run.tokLive
    /\ fret[1] = NoOutcome /\ fret[2] = Panic(ErrPayload(2))
    /\ gor[1].pc = "done" /\ gor[1].err = Canceled
    /\ run.err = ErrPayload(2)

\* Client c finished a Receive that it had started before any call obtained
\* the record of the handle.
RacedReceive(c) ==
    /\ cl[c].last.op = "Receive"
    /\ ~cl[c].last.after

\* C33: when two threads call Receive concurrently on one handle, the record is
\* obtained at most once; a Receive ends with the record or, once the producer
\* has closed the channel, in the closed-channel panic; of two calls that raced
\* exactly one obtained the record and the other panicked; and once the task
\* function has returned no Receive stays blocked.
C33_Safety ==
    /\ hist.got[TheRdv] <= 1
    /\ \A c \in Clients :
          cl[c].last.op = "Receive" =>
              /\ cl[c].last.kind \in {"record", "panic"}
              /\ cl[c].last.kind = "panic" =>
                    /\ cl[c].last.payload = ClosedRdvPayload
                    /\ hist.closed[TheRdv] = 1
    /\ \A c1, c2 \in Clients :
          (c1 # c2 /\ RacedReceive(c1) /\ RacedReceive(c2)) =>
              {cl[c1].last.kind, cl[c2].last.kind} = {"record", "panic"}

C33_ConcurrentReceive ==
    /\ []C33_Safety
    /\ \A c \in Clients :
          (cl[c].pc = "wait" /\ cl[c].cur.op = "Receive" /\ fret[1] # NoOutcome)
              ~> (cl[c].pc # "wait")

\* Both threads called Receive before the record was obtained; one of them
\* returned the task's value and the other panicked.
C33_Witness ==
    \E c1, c2 \in Clients :
        /\ c1 # c2 /\ RacedReceive(c1) /\ RacedReceive(c2)
        /\ cl[c1].last.kind = "record" /\ cl[c1].last.value = 1 /\ cl[c1].last.err = Nil
        /\ cl[c2].pc = "panicked" /\ cl[c2].last.payload = ClosedRdvPayload

---------------------------------------------------------------------------
(* Package obsolete: the waiters (SingleWaiter, WgWaiter, EgWaiter), Go /   *)
(* GoWg / GoEg, the promise of Async, and RunInBackground.                  *)
(*                                                                          *)
(* An unbuffered channel hands a value over only when a receiver is in its  *)
(* receive; sync.Once.Do runs its function for the first caller and makes   *)
(* every other caller wait for that run to end.  A read of the result       *)
(* struct that no channel operation orders after the goroutine's write may  *)
(* see either field before or after the write.                              *)

\* "Async": promise := Async(ctx, f), then Await on the promise.
\* "RunInBackground": RunInBackground(ctx, f, errorHandler).
\* "WgWaiter": w := MakeWgWaiter(ctx), GoWg(w, f_i, &res_i) for each i, then w.Wait().
\* "EgWaiter": w := MakeEgWaiter(ctx), GoEg(w, f_i, &res_i) for each i, then w.Wait().
ObsModes == {"Async", "RunInBackground", "WgWaiter", "EgWaiter"}
SingleModes == {"Async", "RunInBackground"}

\* The variables of rdv and rdvext that package obsolete does not touch.
rdvVars == <<ch, recvq, inbox, gor, run, cl, hist>>

\* util.SafeFunc1E(f)(ctx): as SafeFunc0E, for a function of one argument.
SafeFunc1E(o) ==
    LET err0 == IF o.panics THEN o.payload ELSE Nil
        res  == IF o.panics THEN ZeroValue ELSE o.value
        err  == IF o.panics THEN Nil ELSE o.err
    IN  Ret(res, IF err0 # Nil THEN ToError(err0) ELSE err)

F1AfterOnlyIfLive(o) ==
    IF ~o.panics /\ o.err # Nil /\ tok.ctx = "live" THEN "handler" ELSE "write"

\* RunInBackground's f1 after "res, err := f(ctx)": "if err != nil {
\* errorHandler(err) }", then return; a panic of f leaves f1 at once.
F1After(o) ==
    IF ~o.panics /\ o.err # Nil THEN "handler" ELSE "write"

\* The goroutine of Go / GoWg / GoEg calls fs (the task function under
\* SafeFunc1E; under RunInBackground the task function is f1), which ends.
Go_Call(i) ==
    /\ obs.task[i].pc = "call"
    /\ \E o \in Outcomes(i) :
          /\ fret' = [fret EXCEPT ![i] = o]
          /\ obs' = [obs EXCEPT
                !.task[i] =
                    [pc  |-> IF mode = "RunInBackground" THEN F1After(o)
                             ELSE IF mode = "Async" THEN "write" ELSE "report",
                     res |-> SafeFunc1E(o).value,
                     err |-> SafeFunc1E(o).err]]
    /\ UNCHANGED <<mode, n, tok, eg, rdvVars>>

\* errorHandler(err), called by f1 in the goroutine.
F1_Handler(i) ==
    /\ obs.task[i].pc = "handler"
    /\ obs' = [obs EXCEPT !.task[i].pc = "write", !.handled = @ + 1]
    /\ UNCHANGED <<mode, n, tok, fret, eg, rdvVars>>

\* Go: *pResult = ResultWithError[T]{res, err}, a store of two fields.
Go_Write(i) ==
    /\ obs.task[i].pc = "write"
    /\ \E fld \in {"Value", "Error"} \ obs.written :
          obs' = [obs EXCEPT
                !.resWE[fld] = IF fld = "Value" THEN obs.task[i].res ELSE obs.task[i].err,
                !.written = @ \cup {fld},
                !.task[i].pc = IF obs.written \cup {fld} = {"Value", "Error"}
                                    THEN "closeCompl" ELSE "write"]
    /\ UNCHANGED <<mode, n, tok, fret, eg, rdvVars>>

\* Go: close(w.ComplCh)
Go_CloseCompl(i) ==
    /\ obs.task[i].pc = "closeCompl"
    /\ obs' = [obs EXCEPT !.task[i].pc = "done", !.complCh = "closed"]
    /\ UNCHANGED <<mode, n, tok, fret, eg, rdvVars>>

\* GoWg: the result is stored and the deferred w.Wg.Done() runs.
GoWg_Done(i) ==
    /\ mode = "WgWaiter"
    /\ obs.task[i].pc = "report"
    /\ obs' = [obs EXCEPT !.task[i].pc = "done", !.wg = @ - 1]
    /\ UNCHANGED <<mode, n, tok, fret, eg, rdvVars>>

\* GoEg: the function given to w.Eg.Go returns err; errgroup records the first
\* non-nil error and cancels the derived token, then g.wg.Done().
GoEg_Return(i) ==
    /\ mode = "EgWaiter"
    /\ obs.task[i].pc = "report"
    /\ obs' = [obs EXCEPT !.task[i].pc = "done"]
    /\ IF obs.task[i].err # Nil /\ ~eg.errSet
       THEN /\ eg' = [eg EXCEPT !.errSet = TRUE, !.err = obs.task[i].err, !.wg = @ - 1]
            /\ tok' = [tok EXCEPT !.egCtx = IF @ = "live" THEN "Canceled" ELSE @]
       ELSE /\ eg' = [eg EXCEPT !.wg = @ - 1]
            /\ UNCHANGED tok
    /\ UNCHANGED <<mode, n, fret, rdvVars>>

\* The goroutine started by SingleWaiter.Wait: <-w.ComplCh
Single_Helper ==
    /\ mode \in SingleModes
    /\ obs.helper.pc = "wait"
    /\ obs.complCh = "closed"
    /\ obs' = [obs EXCEPT !.helper.pc = "close"]
    /\ UNCHANGED <<mode, n, tok, fret, eg, rdvVars>>

\* The goroutine started by WgWaiter.Wait: w.Wg.Wait()
Wg_Helper ==
    /\ mode = "WgWaiter"
    /\ obs.helper.pc = "wait"
    /\ obs.wg = 0
    /\ obs' = [obs EXCEPT !.helper.pc = "close"]
    /\ UNCHANGED <<mode, n, tok, fret, eg, rdvVars>>

\* The goroutine started by EgWaiter.Wait: err := w.Eg.Wait(), which waits for
\* the members, cancels the derived token and returns the group's error; the
\* goroutine then stands at "w.P.WaitCh <- err".
Eg_Helper ==
    /\ mode = "EgWaiter"
    /\ obs.helper.pc = "wait"
    /\ eg.wg = 0
    /\ obs' = [obs EXCEPT !.helper = [pc |-> "send", err |-> eg.err]]
    /\ tok' = [tok EXCEPT !.egCtx = IF @ = "live" THEN "Canceled" ELSE @]
    /\ UNCHANGED <<mode, n, fret, eg, rdvVars>>

\* close(w.P.WaitCh), the last statement of each of the three goroutines.
Helper_Close ==
    /\ obs.helper.pc = "close"
    /\ obs' = [obs EXCEPT !.helper.pc = "done", !.waitCh = "closed"]
    /\ UNCHANGED <<mode, n, tok, fret, eg, rdvVars>>

\* Wait (called by Await under Async and RunInBackground) starts with
\* "active := <-w.P.ActiveGate": true while the gate holds it, false once the
\* gate is closed, blocked while another call holds the value.  RunInBackground
\* makes the one call of Await on its promise.
Wait_Gate(c) ==
    /\ obs.caller[c].pc = "idle"
    /\ obs.calls < MaxCalls
    /\ mode = "RunInBackground" => obs.calls = 0
    /\ obs.activeGate # "empty"
    /\ obs' = [obs EXCEPT
          !.calls = @ + 1,
          !.activeGate = IF @ = "true" THEN "empty" ELSE @,
          !.caller[c].pc = IF obs.activeGate = "true" THEN "activate" ELSE "errwait"]
    /\ UNCHANGED <<mode, n, tok, fret, eg, rdvVars>>

\* Wait, "if active": close(w.P.ActiveGate) and start the goroutine that will
\* close WaitCh.
Wait_Activate(c) ==
    /\ obs.caller[c].pc = "activate"
    /\ obs' = [obs EXCEPT !.activeGate = "closed", !.helper.pc = "wait",
                          !.caller[c].pc = "errwait"]
    /\ UNCHANGED <<mode, n, tok, fret, eg, rdvVars>>

\* w.P.ErrWait(): the receiver w is a copy of the preWaiter, Err included.
\* w.WaitChGate.Do(...) runs the function for the first caller, waits while
\* another call runs it, and does nothing once it was run: ErrWait then
\* returns the Err of its copy.
ErrWait_Do(c) ==
    /\ obs.caller[c].pc = "errwait"
    /\ obs.once # "running"
    /\ obs' = [obs EXCEPT
          !.once = IF @ = "new" THEN "running" ELSE @,
          !.caller[c] = [@ EXCEPT !.pc = IF obs.once = "new" THEN "select" ELSE "ret",
                                  !.ran = obs.once = "new",
                                  !.wErr = obs.Err]]
    /\ UNCHANGED <<mode, n, tok, fret, eg, rdvVars>>

\* ErrWait's select, "case errW := <-w.WaitCh" on the closed channel: errW is
\* nil; "w.Err = err" assigns to the call's own copy.
ErrWait_RecvClosed(c) ==
    /\ obs.caller[c].pc = "select"
    /\ obs.waitCh = "closed"
    /\ obs' = [obs EXCEPT !.once = "done",
                          !.caller[c] = [@ EXCEPT !.pc = "ret", !.wErr = Nil]]
    /\ UNCHANGED <<mode, n, tok, fret, eg, rdvVars>>

\* ErrWait's select, "case errW := <-w.WaitCh" meeting the send of
\* EgWaiter.Wait's goroutine, which goes on to close(w.P.WaitCh).
ErrWait_RecvErr(c) ==
    /\ obs.caller[c].pc = "select"
    /\ obs.helper.pc = "send"
    /\ obs' = [obs EXCEPT !.once = "done", !.helper.pc = "close",
                          !.caller[c] = [@ EXCEPT !.pc = "ret", !.wErr = obs.helper.err]]
    /\ UNCHANGED <<mode, n, tok, fret, eg, rdvVars>>

\* ErrWait's select, "case <-w.Ctx.Done(): err = w.Ctx.Err()".
ErrWait_CtxDone(c) ==
    /\ obs.caller[c].pc = "select"
    /\ tok.ctx \in Fired
    /\ obs' = [obs EXCEPT !.once = "done",
                          !.caller[c] = [@ EXCEPT !.pc = "ret",
                                                  !.wErr = ErrOfState(tok.ctx)]]
    /\ UNCHANGED <<mode, n, tok, fret, eg, rdvVars>>

\* promiseImpl.Await after errW := P.Waiter.Wait(): value := P.ResWE.Value;
\* err := P.ResWE.Error; if errW != nil { err = errW }.
AwaitResult(errW) ==
    [done |-> TRUE, errW |-> errW, value |-> obs.resWE.Value,
     err |-> IF errW # Nil THEN errW ELSE obs.resWE.Error]

\* Wait of a WgWaiter or EgWaiter returns what ErrWait returned.
WaitResult(errW) == [done |-> TRUE, errW |-> errW, value |-> ZeroValue, err |-> errW]

\* The call returns: Wait with ErrWait's error, and Await (RunInBackground
\* with it) after reading the promise's result.  obs.first notes what the call
\* that ran ErrWait's select returned: the first call, when calls follow one
\* another.
Wait_Return(c) ==
    /\ obs.caller[c].pc = "ret"
    /\ LET res == IF mode \in SingleModes THEN AwaitResult(obs.caller[c].wErr)
                  ELSE WaitResult(obs.caller[c].wErr)
       IN  obs' = [obs EXCEPT !.caller[c] = [NoCaller EXCEPT !.last = res],
                              !.first = IF obs.caller[c].ran THEN res ELSE @]
    /\ UNCHANGED <<mode, n, tok, fret, eg, rdvVars>>

\* The steps a goroutine of package obsolete takes once its task function ended.
ObsTaskStep(i) ==
    \/ F1_Handler(i) \/ Go_Write(i) \/ Go_CloseCompl(i) \/ GoWg_Done(i) \/ GoEg_Return(i)

ObsHelperStep == Single_Helper \/ Wg_Helper \/ Eg_Helper \/ Helper_Close

\* The steps of a call of Wait / Await in progress.
ObsCallStep(c) ==
    \/ Wait_Activate(c) \/ ErrWait_Do(c) \/ ErrWait_RecvClosed(c)
    \/ ErrWait_RecvErr(c) \/ ErrWait_CtxDone(c) \/ Wait_Return(c)

\* The state after Async(ctx, f), after RunInBackground built its promise, or
\* after MakeWgWaiter / MakeEgWaiter and n calls of GoWg / GoEg: Go, GoWg and
\* GoEg took true from the gate and put it back, and started their goroutine.
InitObs ==
    /\ mode \in ObsModes
    /\ n \in (IF mode \in SingleModes THEN {1} ELSE 0..MaxN)
    /\ InitRdv
    /\ gor = [r \in RdvIds |-> NoGor]
    /\ run = NoRun
    /\ tok = [ctx |-> "live", egCtx |-> IF mode = "EgWaiter" THEN "live" ELSE "absent"]
    /\ eg = IF mode = "EgWaiter" THEN NewEg(n) ELSE NoEg
    /\ obs = [NoObs EXCEPT
          !.task = [i \in Tasks |-> [pc |-> IF i <= n THEN "call" ELSE "none",
                                     res |-> ZeroValue, err |-> Nil]],
          !.wg = IF mode = "WgWaiter" THEN n ELSE 0]

NextObs ==
    \/ \E i \in Tasks : Go_Call(i) \/ ObsTaskStep(i)
    \/ ObsHelperStep
    \/ \E c \in Clients : Wait_Gate(c) \/ ObsCallStep(c)
    \/ TokNext

SpecObs == InitObs /\ [][NextObs]_vars

\* Go's scheduler runs every runnable goroutine and thread; when a task function
\* returns is up to the task, and so is when a caller calls.
FairSpecObs ==
    /\ SpecObs
    /\ \A i \in Tasks : WF_vars(ObsTaskStep(i))
    /\ WF_vars(ObsHelperStep)
    /\ \A c \in Clients : WF_vars(ObsCallStep(c))
    /\ WF_vars(T_Propagate)

\* RunInBackground alone: the state after it built its promise with Async, and
\* the steps of its goroutines and of its one call of Await.
InitBg == InitObs /\ mode = "RunInBackground"

NextBg ==
    \/ \E i \in Tasks :
          Go_Call(i) \/ F1_Handler(i) \/ Go_Write(i) \/ Go_CloseCompl(i)
    \/ Single_Helper \/ Helper_Close
    \/ \E c \in Clients :
          \/ Wait_Gate(c) \/ Wait_Activate(c) \/ ErrWait_Do(c)
          \/ ErrWait_RecvClosed(c) \/ ErrWait_CtxDone(c) \/ Wait_Return(c)
    \/ T_Cancel \/ T_Timeout

SpecBg == InitBg /\ [][NextBg]_vars

FairSpecBg ==
    /\ SpecBg
    /\ \A i \in Tasks : WF_vars(ObsTaskStep(i))
    /\ WF_vars(ObsHelperStep)
    /\ \A c \in Clients : WF_vars(ObsCallStep(c))

\* C34: every Await on one promise returns the (value, error) the first Await
\* returned, also when the first one returned on the token before the task
\* function finished.
C34_AwaitIdempotent ==
    mode = "Async" =>
        \A c \in Clients :
            (obs.caller[c].last.done /\ obs.first.done) =>
                /\ obs.caller[c].last.value = obs.first.value
                /\ obs.caller[c].last.err = obs.first.err

\* C35: every call of Wait on a SingleWaiter, WgWaiter or EgWaiter (ErrWait on
\* its preWaiter) returns the error the first call returned, and a call whose
\* ErrWait ran the select returns the token's error or what the wait channel
\* delivered (nil on a closed channel, the group's error from EgWaiter's
\* goroutine).
C35_WaitIdempotent ==
    /\ \A c \in Clients :
          (obs.caller[c].last.done /\ obs.first.done) =>
              obs.caller[c].last.errW = obs.first.errW
    /\ obs.first.done =>
          \/ obs.first.errW \in {Canceled, DeadlineExceeded} /\ tok.ctx \in Fired
          \/ obs.first.errW = (IF mode = "EgWaiter" THEN eg.err ELSE Nil)

\* C36: once every member of the group has finished, the goroutine started by
\* EgWaiter.Wait terminates: its send on the wait channel is received, also
\* when Wait itself returned on the token.
C36_HelperTerminates ==
    (mode = "EgWaiter" /\ obs.helper.pc # "none" /\ eg.wg = 0)
        ~> (obs.helper.pc = "done")

\* The one thread that called RunInBackground.
BgCaller(c) == mode = "RunInBackground" /\ obs.calls = 1 /\
               (obs.caller[c].pc # "idle" \/ obs.caller[c].last.done)

\* C37: RunInBackground returns once the token fired, without waiting for f;
\* errorHandler runs at most once, only for a non-nil error f returned, and
\* whenever f returns a non-nil error it does run, also when f returns after
\* the token fired and RunInBackground returned.
C37_HandlerRunsOnce ==
    /\ [](mode = "RunInBackground" =>
            /\ obs.handled <= 1
            /\ obs.handled = 1 => (~fret[1].panics /\ fret[1].err = TaskErr(1)))
    /\ \A c \in Clients :
          (BgCaller(c) /\ tok.ctx \in Fired) ~> obs.caller[c].last.done
    /\ (mode = "RunInBackground" /\ fret[1] # NoOutcome /\ ~fret[1].panics
           /\ fret[1].err # Nil)
          ~> (obs.handled = 1)

\* RunInBackground returned the token's error while f was still running; f
\* then returned an error and errorHandler ran.
C37_Witness ==
    /\ mode = "RunInBackground"
    /\ \E c \in Clients :
          /\ obs.caller[c].last.done
          /\ obs.caller[c].last.err = DeadlineExceeded
          /\ obs.caller[c].last.value = ZeroValue
    /\ fret[1] = Ret(11, TaskErr(1))
    /\ obs.handled = 1
    /\ obs.resWE = [Value |-> 11, Error |-> TaskErr(1)]

=============================================================================
